---- MODULE Spec2Model ----
(***************************************************************************)
(* A model of the ELO expression compiler (evoludigit/elo-rust): the       *)
(* lexer and recursive-descent parser, the constant-folding optimizer,     *)
(* the type-inference pass and the code-generation visitor.                *)
(*                                                                         *)
(* Each pass is a pure function of its input, so each is an operator       *)
(* (RECURSIVE where the code recurses) and each pass has a specification   *)
(* that draws an input from a bounded set and applies the pass step by     *)
(* step:                                                                   *)
(*   SpecParse   Parser::parse on source text                              *)
(*   SpecFold    Optimizer::fold_constants on expression trees             *)
(*   SpecTypes   InferredType::common_type                                 *)
(*   SpecInfer   TypeInferenceVisitor::infer                               *)
(*   SpecCodegen CodegenVisitor::visit_expr                                *)
(* and the input validation in front of the compiler has its own:          *)
(*   SpecValidate validate_expression on source text                       *)
(* and the lexer alone, one token per step:                                *)
(*   SpecLex     Lexer::tokenize on source text                            *)
(*   SpecParseSteps  Parser::parse with the lexer run in steps (fair)      *)
(***************************************************************************)
EXTENDS Integers, Sequences, FiniteSets, TLC

VARIABLES
    \* Parser::parse
    p_phase,          \* "source" | "lexed" | "parsed"
    form,             \* what the source text was written from
    input,            \* the source text, a sequence of characters
    tokens,           \* Lexer::tokenize's result
    parsed,           \* Parser::parse's result
    \* Optimizer
    o_phase,          \* "input" | "folded" | "refolded"
    o_wraps,          \* how many parent nodes were built around the seed
    overflow_checks,  \* the build profile: TRUE = debug (overflow panics)
    expr,             \* the expression handed to fold_constants
    folded,           \* fold_constants(expr)
    refolded,         \* fold_constants(folded)
    \* InferredType::common_type
    t_phase,          \* "input" | "unified"
    ty_a, ty_b,       \* the two types handed to common_type
    unified,          \* [ab |-> common_type(a, b), ba |-> common_type(b, a)]
    \* TypeInferenceVisitor
    i_phase,          \* "input" | "inferred"
    i_wraps,          \* how many parent nodes were built around the seed
    i_expr,           \* the expression handed to infer
    inferred,         \* infer(i_expr)
    \* Code generation
    c_phase,          \* "input" | "generated" | "compared"
    c_expr,           \* the expression handed to visit_expr
    c_other,          \* the expression c_expr is compared with
    fragment,         \* visit_expr(c_expr)
    other_fragment,   \* visit_expr(c_other)
    \* validate_expression
    v_phase,          \* "input" | "validated"
    v_input,          \* the text handed to validate_expression
    v_result,         \* validate_expression(v_input)
    \* Lexer::tokenize
    l_phase,          \* "lexing" | "done" | "failed"
    l_src,            \* the text handed to Lexer::new
    l_lexer,          \* the lexer: position, line, column
    l_tokens,         \* the vector tokenize has pushed to
    l_result          \* what tokenize returned

pvars == <<p_phase, form, input, tokens, parsed>>
ovars == <<o_phase, o_wraps, overflow_checks, expr, folded, refolded>>
tvars == <<t_phase, ty_a, ty_b, unified>>
ivars == <<i_phase, i_wraps, i_expr, inferred>>
cvars == <<c_phase, c_expr, c_other, fragment, other_fragment>>
svars == <<v_phase, v_input, v_result>>
lvars == <<l_phase, l_src, l_lexer, l_tokens, l_result>>
vars == <<pvars, ovars, tvars, ivars, cvars, svars, lvars>>

----------------------------------------------------------------------------
(* Bounds of the model.                                                    *)

\* i64 is modelled as a two's-complement integer of IntBits bits.
IntBits == 8

\* How many parent nodes the optimizer's input is wrapped in.
MaxWraps == 1

MinInt == -(2 ^ (IntBits - 1))
MaxInt == (2 ^ (IntBits - 1)) - 1
InRange(n) == MinInt <= n /\ n <= MaxInt

\* Wrapping to the modelled width (what a release build's unchecked
\* arithmetic leaves in the register).
Wrap(n) == ((n - MinInt) % (2 ^ IntBits)) + MinInt

Abs(n) == IF n < 0 THEN -n ELSE n
Sign(n) == IF n < 0 THEN -1 ELSE IF n > 0 THEN 1 ELSE 0

\* Rust's integer division truncates toward zero; % takes the dividend's sign.
TruncDiv(l, r) == Sign(l) * Sign(r) * (Abs(l) \div Abs(r))
TruncRem(l, r) == l - r * TruncDiv(l, r)

----------------------------------------------------------------------------
(* f64.  The model keeps what the folding rules can observe of an IEEE     *)
(* double at a reduced precision: a float is a whole number of magnitude   *)
(* at most FloatMax, or one of NaN, +inf, -inf; a result that is not       *)
(* representable is rounded to the nearest value (ties to even) and a      *)
(* result beyond FloatMax overflows to an infinity.  Signed zero is not    *)
(* distinguished.                                                          *)

FloatMax == (2 ^ IntBits) * 4

FFin(k) == [c |-> "fin", n |-> k]
FNaN == [c |-> "nan", n |-> 0]
FInf == [c |-> "inf", n |-> 0]
FNegInf == [c |-> "ninf", n |-> 0]

FNorm(k) == IF k > FloatMax THEN FInf ELSE IF k < -FloatMax THEN FNegInf ELSE FFin(k)
FIsNaN(x) == x.c = "nan"
FIsFin(x) == x.c = "fin"
FSign(x) == IF x.c = "inf" THEN 1 ELSE IF x.c = "ninf" THEN -1 ELSE Sign(x.n)
FSignedInf(s) == IF s < 0 THEN FNegInf ELSE FInf
FIsZero(x) == x.c = "fin" /\ x.n = 0

\* a / b rounded to the nearest whole number, ties to even (b # 0).
RoundDiv(a, b) ==
    LET q == TruncDiv(a, b)
        r == Abs(TruncRem(a, b))
        s == Sign(a) * Sign(b)
    IN  IF 2 * r > Abs(b) THEN q + s
        ELSE IF 2 * r = Abs(b) /\ q % 2 # 0 THEN q + s
        ELSE q

FNeg(x) ==
    CASE x.c = "fin" -> FFin(-x.n)
      [] x.c = "inf" -> FNegInf
      [] x.c = "ninf" -> FInf
      [] OTHER -> FNaN

FAbs(x) == IF FIsNaN(x) THEN FNaN ELSE IF FIsFin(x) THEN FFin(Abs(x.n)) ELSE FInf

FAdd(x, y) ==
    IF FIsNaN(x) \/ FIsNaN(y) THEN FNaN
    ELSE IF FIsFin(x) /\ FIsFin(y) THEN FNorm(x.n + y.n)
    ELSE IF FIsFin(x) THEN y
    ELSE IF FIsFin(y) THEN x
    ELSE IF x = y THEN x ELSE FNaN

FSub(x, y) == FAdd(x, FNeg(y))

FMul(x, y) ==
    IF FIsNaN(x) \/ FIsNaN(y) THEN FNaN
    ELSE IF FIsFin(x) /\ FIsFin(y) THEN FNorm(x.n * y.n)
    ELSE IF FIsZero(x) \/ FIsZero(y) THEN FNaN
    ELSE FSignedInf(FSign(x) * FSign(y))

FDiv(x, y) ==
    IF FIsNaN(x) \/ FIsNaN(y) THEN FNaN
    ELSE IF FIsFin(x) /\ FIsFin(y) THEN
        IF y.n = 0 THEN (IF x.n = 0 THEN FNaN ELSE FSignedInf(Sign(x.n)))
        ELSE FNorm(RoundDiv(x.n, y.n))
    ELSE IF FIsFin(x) THEN FFin(0)
    ELSE IF FIsFin(y) THEN FSignedInf(FSign(x) * (IF y.n < 0 THEN -1 ELSE 1))
    ELSE FNaN

\* Rust's % on f64 is fmod: the remainder has the dividend's sign.
FRem(x, y) ==
    IF FIsNaN(x) \/ FIsNaN(y) THEN FNaN
    ELSE IF ~FIsFin(x) THEN FNaN
    ELSE IF ~FIsFin(y) THEN x
    ELSE IF y.n = 0 THEN FNaN
    ELSE FFin(TruncRem(x.n, y.n))

\* |base| >= 2, k >= 0: base^k by repeated multiplication, stopping at overflow.
RECURSIVE FPowNat(_, _)
FPowNat(base, k) ==
    IF k = 0 THEN FFin(1)
    ELSE LET rest == FPowNat(base, k - 1)
         IN  IF FIsFin(rest) THEN FMul(FFin(base), rest)
             ELSE FSignedInf(FSign(rest) * Sign(base))

\* The exponent at which |base|^k is certainly beyond FloatMax (|base| >= 2):
\* the parity is kept so that the sign of the overflowed result is right.
PowCap(k) == IF k <= IntBits + 4 THEN k ELSE IntBits + 4 + (k % 2)

\* f64::powf, on the values of the model (every finite exponent is whole).
FPow(x, y) ==
    IF FIsZero(y) THEN FFin(1)
    ELSE IF x = FFin(1) THEN FFin(1)
    ELSE IF FIsNaN(x) \/ FIsNaN(y) THEN FNaN
    ELSE IF y.c = "inf" THEN
        (IF x = FFin(-1) THEN FFin(1)
         ELSE IF FIsFin(x) /\ Abs(x.n) < 1 THEN FFin(0) ELSE FInf)
    ELSE IF y.c = "ninf" THEN
        (IF x = FFin(-1) THEN FFin(1)
         ELSE IF FIsFin(x) /\ Abs(x.n) < 1 THEN FInf ELSE FFin(0))
    ELSE IF x.c = "inf" THEN (IF y.n > 0 THEN FInf ELSE FFin(0))
    ELSE IF x.c = "ninf" THEN
        (IF y.n > 0 THEN (IF y.n % 2 = 1 THEN FNegInf ELSE FInf) ELSE FFin(0))
    ELSE IF x.n = 0 THEN (IF y.n > 0 THEN FFin(0) ELSE FInf)
    ELSE IF x.n = -1 THEN (IF y.n % 2 = 0 THEN FFin(1) ELSE FFin(-1))
    ELSE IF y.n > 0 THEN FPowNat(x.n, PowCap(y.n))
    ELSE FDiv(FFin(1), FPowNat(x.n, PowCap(-y.n)))

\* The comparisons of f64: every comparison with NaN is false.
FLt(x, y) ==
    /\ ~FIsNaN(x) /\ ~FIsNaN(y)
    /\ \/ x.c = "ninf" /\ y.c # "ninf"
       \/ y.c = "inf" /\ x.c # "inf"
       \/ FIsFin(x) /\ FIsFin(y) /\ x.n < y.n
FEqual(x, y) == ~FIsNaN(x) /\ ~FIsNaN(y) /\ x = y
FLe(x, y) == FLt(x, y) \/ FEqual(x, y)

\* f64::EPSILON is the gap between 1.0 and the next float: one unit here.
FloatEpsilon == FFin(1)

----------------------------------------------------------------------------
(* The AST (src/ast/mod.rs).  Every node is a record tagged by `kind`.     *)

BinaryOperator ==
    {"Add", "Sub", "Mul", "Div", "Mod", "Pow",
     "Eq", "Neq", "Lt", "Lte", "Gt", "Gte", "And", "Or"}
UnaryOperator == {"Not", "Neg", "Plus"}

LitInteger(n) == [t |-> "Integer", i |-> n, f |-> FFin(0), b |-> FALSE]
LitFloat(x) == [t |-> "Float", i |-> 0, f |-> x, b |-> FALSE]
LitBoolean(v) == [t |-> "Boolean", i |-> 0, f |-> FFin(0), b |-> v]

Literal(l) == [kind |-> "Literal", lit |-> l]
Null == [kind |-> "Null"]
Identifier(nm) == [kind |-> "Identifier", name |-> nm]
FieldAccess(r, fld) == [kind |-> "FieldAccess", receiver |-> r, field |-> fld]
BinaryOp(o, l, r) == [kind |-> "BinaryOp", op |-> o, left |-> l, right |-> r]
UnaryOp(o, e) == [kind |-> "UnaryOp", op |-> o, operand |-> e]
FunctionCall(nm, as) == [kind |-> "FunctionCall", name |-> nm, args |-> as]
Lambda(p, b) == [kind |-> "Lambda", param |-> p, body |-> b]
Let(nm, v, b) == [kind |-> "Let", name |-> nm, value |-> v, body |-> b]
If(c, t, e) == [kind |-> "If", condition |-> c, then_branch |-> t, else_branch |-> e]
Array(es) == [kind |-> "Array", elements |-> es]
Object(fs) == [kind |-> "Object", fields |-> fs]
Pipe(v, fns) == [kind |-> "Pipe", value |-> v, functions |-> fns]
Alternative(p, a) == [kind |-> "Alternative", primary |-> p, alternative |-> a]
Guard(c, b) == [kind |-> "Guard", condition |-> c, body |-> b]
Date(s) == [kind |-> "Date", text |-> s]
DateTime(s) == [kind |-> "DateTime", text |-> s]
Duration(s) == [kind |-> "Duration", text |-> s]
TemporalKeyword(k) == [kind |-> "TemporalKeyword", keyword |-> k]
TemporalKeywords ==
    {"Now", "Today", "Tomorrow", "Yesterday", "StartOfDay", "EndOfDay",
     "StartOfWeek", "EndOfWeek", "StartOfMonth", "EndOfMonth", "StartOfQuarter",
     "EndOfQuarter", "StartOfYear", "EndOfYear", "BeginningOfTime", "EndOfTime"}
String(s) == [kind |-> "String", text |-> s]

IntLit(n) == Literal(LitInteger(n))
FloatLit(x) == Literal(LitFloat(x))
BoolLit(v) == Literal(LitBoolean(v))

\* A sequence mapped element by element (iter().map(f).collect()).
MapSeq(s, F(_)) == [i \in 1..Len(s) |-> F(s[i])]

----------------------------------------------------------------------------
(* The optimizer (src/codegen/optimization.rs).                            *)

\* Option::None, and the unwinding of a panic (an arithmetic overflow that
\* the code does not check aborts the call of fold_constants).
None == [kind |-> "None"]
Panic == [kind |-> "Panic"]
IsPanic(e) == e.kind = "Panic"

\* i64::checked_add, checked_sub, checked_mul, checked_div: None on overflow.
checked_add(l, r) == IF InRange(l + r) THEN IntLit(l + r) ELSE None
checked_sub(l, r) == IF InRange(l - r) THEN IntLit(l - r) ELSE None
checked_mul(l, r) == IF InRange(l * r) THEN IntLit(l * r) ELSE None
\* A division that rounds toward negative infinity, which i64 division
\* does not do.
checked_div_floor(l, r) ==
    IF r = 0 \/ (l = MinInt /\ r = -1) THEN None
    ELSE IntLit(IF r > 0 THEN l \div r ELSE (0 - l) \div (0 - r))
checked_div(l, r) ==
    IF r = 0 \/ (l = MinInt /\ r = -1) THEN None ELSE IntLit(TruncDiv(l, r))

\* i64::checked_pow: None as soon as a product leaves the range.
RECURSIVE checked_pow(_, _)
checked_pow(l, e) ==
    IF e = 0 THEN IntLit(1)
    ELSE LET rest == checked_pow(l, e - 1)
         IN  IF rest = None THEN None ELSE checked_mul(rest.lit.i, l)

\* The unchecked `l % r` of i64: Rust panics on i64::MIN % -1 in every
\* build profile (r = 0 is excluded by the match guard).
unchecked_rem(l, r) ==
    IF l = MinInt /\ r = -1 THEN Panic ELSE IntLit(TruncRem(l, r))

\* The unchecked `-n` of i64: a panic when overflow checks are compiled in
\* (debug), the wrapped value otherwise (release).
unchecked_neg(n) ==
    IF InRange(-n) THEN IntLit(-n)
    ELSE IF overflow_checks THEN Panic ELSE IntLit(Wrap(-n))

\* The largest exponent fold_binary_op folds.
MaxFoldExponent == 31

fold_int_op(op, l, r) ==
    CASE op = "Add" -> checked_add(l, r)
      [] op = "Sub" -> checked_sub(l, r)
      [] op = "Mul" -> checked_mul(l, r)
      [] op = "Div" /\ r # 0 -> checked_div(l, r)
      [] op = "Mod" /\ r # 0 -> unchecked_rem(l, r)
      [] op = "Pow" ->
            IF r < 0 \/ r > MaxFoldExponent THEN None ELSE checked_pow(l, r)
      [] op = "Eq" -> BoolLit(l = r)
      [] op = "Neq" -> BoolLit(l # r)
      [] op = "Lt" -> BoolLit(l < r)
      [] op = "Lte" -> BoolLit(l <= r)
      [] op = "Gt" -> BoolLit(l > r)
      [] op = "Gte" -> BoolLit(l >= r)
      [] OTHER -> None

fold_float_op(op, l, r) ==
    CASE op = "Add" -> FloatLit(FAdd(l, r))
      [] op = "Sub" -> FloatLit(FSub(l, r))
      [] op = "Mul" -> FloatLit(FMul(l, r))
      [] op = "Div" /\ ~FIsZero(r) -> FloatLit(FDiv(l, r))
      [] op = "Mod" /\ ~FIsZero(r) -> FloatLit(FRem(l, r))
      [] op = "Pow" -> FloatLit(FPow(l, r))
      [] op = "Eq" -> BoolLit(FLt(FAbs(FSub(l, r)), FloatEpsilon))
      [] op = "Neq" -> BoolLit(FLe(FloatEpsilon, FAbs(FSub(l, r))))
      [] op = "Lt" -> BoolLit(FLt(l, r))
      [] op = "Lte" -> BoolLit(FLe(l, r))
      [] op = "Gt" -> BoolLit(FLt(r, l))
      [] op = "Gte" -> BoolLit(FLe(r, l))
      [] OTHER -> None

fold_bool_op(op, l, r) ==
    CASE op = "And" -> BoolLit(l /\ r)
      [] op = "Or" -> BoolLit(l \/ r)
      [] op = "Eq" -> BoolLit(l = r)
      [] op = "Neq" -> BoolLit(l # r)
      [] OTHER -> None

\* Optimizer::fold_binary_op: Some(literal), None, or a panic.
fold_binary_op(op, left, right) ==
    CASE left.t = "Integer" /\ right.t = "Integer" -> fold_int_op(op, left.i, right.i)
      [] left.t = "Float" /\ right.t = "Float" -> fold_float_op(op, left.f, right.f)
      [] left.t = "Boolean" /\ right.t = "Boolean" -> fold_bool_op(op, left.b, right.b)
      [] OTHER -> None

\* Optimizer::fold_unary_op.
fold_unary_op(op, lit) ==
    CASE op = "Not" -> IF lit.t = "Boolean" THEN BoolLit(~lit.b) ELSE None
      [] op = "Neg" ->
            IF lit.t = "Integer" THEN unchecked_neg(lit.i)
            ELSE IF lit.t = "Float" THEN FloatLit(FNeg(lit.f))
            ELSE None
      [] op = "Plus" ->
            IF lit.t = "Integer" THEN IntLit(lit.i)
            ELSE IF lit.t = "Float" THEN FloatLit(lit.f)
            ELSE None

\* A node built from folded children: a panic in a child unwinds through it.
Unwinding(children, node) ==
    IF \E i \in 1..Len(children) : IsPanic(children[i]) THEN Panic ELSE node

RECURSIVE fold_constants(_)

\* fold_constants, the recursion: the node with every child replaced by its
\* own fold (the first step of every match arm); leaves are cloned.
fold_children(e) ==
    CASE e.kind = "BinaryOp" ->
            LET left_folded == fold_constants(e.left)
                right_folded == fold_constants(e.right)
            IN  Unwinding(<<left_folded, right_folded>>,
                          BinaryOp(e.op, left_folded, right_folded))
      [] e.kind = "UnaryOp" ->
            LET operand_folded == fold_constants(e.operand)
            IN  Unwinding(<<operand_folded>>, UnaryOp(e.op, operand_folded))
      [] e.kind = "Array" ->
            LET fs == MapSeq(e.elements, fold_constants)
            IN  Unwinding(fs, Array(fs))
      [] e.kind = "Object" ->
            LET vs == [i \in 1..Len(e.fields) |-> fold_constants(e.fields[i][2])]
            IN  Unwinding(vs, Object([i \in 1..Len(e.fields) |-> <<e.fields[i][1], vs[i]>>]))
      [] e.kind = "FieldAccess" ->
            LET r == fold_constants(e.receiver)
            IN  Unwinding(<<r>>, FieldAccess(r, e.field))
      [] e.kind = "FunctionCall" ->
            LET as == MapSeq(e.args, fold_constants)
            IN  Unwinding(as, FunctionCall(e.name, as))
      [] e.kind = "Lambda" ->
            LET b == fold_constants(e.body)
            IN  Unwinding(<<b>>, Lambda(e.param, b))
      [] e.kind = "Let" ->
            LET v == fold_constants(e.value)
                b == fold_constants(e.body)
            IN  Unwinding(<<v, b>>, Let(e.name, v, b))
      [] e.kind = "If" ->
            LET c == fold_constants(e.condition)
                t == fold_constants(e.then_branch)
                f == fold_constants(e.else_branch)
            IN  Unwinding(<<c, t, f>>, If(c, t, f))
      [] e.kind = "Pipe" ->
            LET v == fold_constants(e.value)
                fns == MapSeq(e.functions, fold_constants)
            IN  Unwinding(<<v>> \o fns, Pipe(v, fns))
      [] e.kind = "Alternative" ->
            LET p == fold_constants(e.primary)
                a == fold_constants(e.alternative)
            IN  Unwinding(<<p, a>>, Alternative(p, a))
      [] e.kind = "Guard" ->
            LET c == fold_constants(e.condition)
                b == fold_constants(e.body)
            IN  Unwinding(<<c, b>>, Guard(c, b))
      [] OTHER -> e

\* A fold that also evaluates an `if` whose condition is a boolean literal,
\* which the code does not do.
fold_node_with_if(n) ==
    CASE n.kind = "BinaryOp" /\ n.left.kind = "Literal" /\ n.right.kind = "Literal" ->
            LET r == fold_binary_op(n.op, n.left.lit, n.right.lit)
            IN  IF r = None THEN n ELSE r
      [] n.kind = "UnaryOp" /\ n.operand.kind = "Literal" ->
            LET r == fold_unary_op(n.op, n.operand.lit)
            IN  IF r = None THEN n ELSE r
      [] n.kind = "If" /\ n.condition = BoolLit(TRUE) -> n.then_branch
      [] n.kind = "If" /\ n.condition = BoolLit(FALSE) -> n.else_branch
      [] OTHER -> n

\* fold_constants, the attempt on the rewritten node: a BinaryOp or UnaryOp
\* whose (folded) operands are literals is replaced by what fold_binary_op or
\* fold_unary_op returns, when that is Some; every other node stays.
fold_node(n) ==
    CASE n.kind = "BinaryOp" /\ n.left.kind = "Literal" /\ n.right.kind = "Literal" ->
            LET r == fold_binary_op(n.op, n.left.lit, n.right.lit)
            IN  IF r = None THEN n ELSE r
      [] n.kind = "UnaryOp" /\ n.operand.kind = "Literal" ->
            LET r == fold_unary_op(n.op, n.operand.lit)
            IN  IF r = None THEN n ELSE r
      [] OTHER -> n

\* A bug: the node is tried before its children are folded.
fold_constants_preorder(e) == fold_children(fold_node(e))

\* Optimizer::fold_constants: children first, then the node.
fold_constants(e) == fold_node(fold_children(e))

----------------------------------------------------------------------------
(* Inputs of the optimizer: literals at the edges of the integer range and *)
(* of the exponent rule, every operator over every pair of them, and each  *)
(* of these once more inside every kind of parent node.                    *)

IntSamples == {MinInt, -1, 0, 2, 3, MaxFoldExponent, MaxFoldExponent + 1, MaxInt}
FloatSamples == {FFin(0), FFin(2), FFin(-3), FFin(FloatMax), FNaN}
IntLits == {IntLit(n) : n \in IntSamples}
FloatLits == {FloatLit(x) : x \in FloatSamples}
BoolLits == {BoolLit(v) : v \in BOOLEAN}

OtherLeaves ==
    {Null, Identifier("x"), String("a"), Date("2024-01-15"),
     DateTime("2024-01-15T10:30:00Z"), Duration("P1D"), TemporalKeyword("Today")}

SamePairs ==
    (IntLits \X IntLits) \cup (FloatLits \X FloatLits) \cup (BoolLits \X BoolLits)
MixedPairs ==
    {<<IntLit(2), FloatLit(FFin(2))>>, <<BoolLit(TRUE), IntLit(0)>>,
     <<Identifier("x"), IntLit(3)>>, <<FloatLit(FFin(2)), String("a")>>}

OptSeeds ==
    IntLits \cup FloatLits \cup BoolLits \cup OtherLeaves
    \cup {BinaryOp(o, pr[1], pr[2]) : o \in BinaryOperator, pr \in SamePairs \cup MixedPairs}
    \cup {UnaryOp(o, l) : o \in UnaryOperator, l \in IntLits \cup FloatLits \cup BoolLits}

\* The parents a seed is placed under.
OptParents(e) ==
    {BinaryOp("Add", e, IntLit(4)), BinaryOp("Sub", IntLit(2), e),
     BinaryOp("And", e, BoolLit(TRUE)), BinaryOp("Eq", e, e),
     UnaryOp("Neg", e), UnaryOp("Not", e), UnaryOp("Plus", e),
     Array(<<IntLit(1), e>>), Object(<<<<"k", e>>>>), FieldAccess(e, "fld"),
     FunctionCall("abs", <<e>>), Lambda("x", e), Let("x", e, Identifier("x")),
     If(BoolLit(TRUE), e, IntLit(2)), Pipe(e, <<FunctionCall("trim", <<>>)>>),
     Alternative(e, Null), Guard(e, IntLit(1))}

OptIdle ==
    /\ o_phase = "idle"
    /\ o_wraps = 0
    /\ overflow_checks = TRUE
    /\ expr = Null
    /\ folded = Null
    /\ refolded = Null

OptInit ==
    /\ o_phase = "input"
    /\ o_wraps = 0
    /\ overflow_checks \in BOOLEAN
    /\ expr \in OptSeeds
    /\ folded = Null
    /\ refolded = Null

\* The caller builds a larger expression around the seed.
OptWrap ==
    /\ o_phase = "input"
    /\ o_wraps < MaxWraps
    /\ o_wraps' = o_wraps + 1
    /\ expr' \in OptParents(expr)
    /\ UNCHANGED <<o_phase, overflow_checks, folded, refolded>>

\* Optimizer::optimize(&expr).
Optimize ==
    /\ o_phase = "input"
    /\ o_phase' = "folded"
    /\ folded' = fold_constants(expr)
    /\ UNCHANGED <<o_wraps, overflow_checks, expr, refolded>>

\* Optimizer::optimize on the result of the first call (which returned).
OptimizeAgain ==
    /\ o_phase = "folded"
    /\ ~IsPanic(folded)
    /\ o_phase' = "refolded"
    /\ refolded' = fold_constants(folded)
    /\ UNCHANGED <<o_wraps, overflow_checks, expr, folded>>

OptNext == OptWrap \/ Optimize \/ OptimizeAgain

----------------------------------------------------------------------------
(* The lexer (src/parser/lexer.rs).  The source text is a sequence of      *)
(* one-character strings.  A token is a record: its variant, and the       *)
(* payload of Integer, Float, String and Identifier.                       *)

Token(type) == [type |-> type, int |-> 0, flt |-> FFin(0), text |-> ""]
TokInteger(n) == [type |-> "Integer", int |-> n, flt |-> FFin(0), text |-> ""]
TokFloat(x) == [type |-> "Float", int |-> 0, flt |-> x, text |-> ""]
TokString(s) == [type |-> "String", int |-> 0, flt |-> FFin(0), text |-> s]
TokIdentifier(s) == [type |-> "Identifier", int |-> 0, flt |-> FFin(0), text |-> s]
Eof == Token("Eof")

LexError(message, line, column) ==
    [message |-> message, line |-> line, column |-> column]
NoError == LexError("", 0, 0)

\* A step of the lexer: Ok(token) or Err(error), and the lexer after it.
LexOk(token, lx) == [ok |-> TRUE, token |-> token, error |-> NoError, lexer |-> lx]
LexErr(message, line, column, lx) ==
    [ok |-> FALSE, token |-> Eof, error |-> LexError(message, line, column),
     lexer |-> lx]

\* char::is_ascii_digit, is_whitespace, is_alphabetic, is_alphanumeric on
\* the characters of the modelled alphabet (ASCII).
AsciiDigits == {"0", "1", "2", "3", "4", "5", "6", "7", "8", "9"}
Whitespace == {" ", "\t", "\n", "\r"}
Alphabetic ==
    {"a", "b", "c", "d", "e", "f", "g", "h", "i", "j", "k", "l", "m", "n", "o",
     "p", "q", "r", "s", "t", "u", "v", "w", "x", "y", "z", "A", "B", "C", "D",
     "E", "F", "G", "H", "I", "J", "K", "L", "M", "N", "O", "P", "Q", "R", "S",
     "T", "U", "V", "W", "X", "Y", "Z"}
is_ascii_digit(ch) == ch \in AsciiDigits
is_whitespace(ch) == ch \in Whitespace
is_alphabetic(ch) == ch \in Alphabetic
is_alphanumeric(ch) == ch \in Alphabetic \cup AsciiDigits
DigitValue(ch) ==
    CASE ch = "0" -> 0 [] ch = "1" -> 1 [] ch = "2" -> 2 [] ch = "3" -> 3
      [] ch = "4" -> 4 [] ch = "5" -> 5 [] ch = "6" -> 6 [] ch = "7" -> 7
      [] ch = "8" -> 8 [] ch = "9" -> 9

\* The characters of a sequence joined into one string.
RECURSIVE Concat(_)
Concat(chars) == IF chars = <<>> THEN "" ELSE Head(chars) \o Concat(Tail(chars))

\* Lexer::new: nothing consumed, line 1, column 1.
Lexer_new == [position |-> 0, line |-> 1, column |-> 1]

\* self.current_char: None (here "") at the end of the input.
NoChar == ""
current_char(src, lx) ==
    IF lx.position < Len(src) THEN src[lx.position + 1] ELSE NoChar

\* Lexer::advance.
Lexer_advance(src, lx) ==
    IF current_char(src, lx) = "\n"
    THEN [position |-> lx.position + 1, line |-> lx.line + 1, column |-> 1]
    ELSE [position |-> lx.position + 1, line |-> lx.line, column |-> lx.column + 1]

\* Lexer::skip_whitespace.
RECURSIVE skip_whitespace(_, _)
skip_whitespace(src, lx) ==
    IF is_whitespace(current_char(src, lx))
    THEN skip_whitespace(src, Lexer_advance(src, lx))
    ELSE lx

\* str::parse::<i64> on a run of digits: None when the value leaves the
\* range.  acc is the value of the digits read so far.
RECURSIVE parse_i64(_, _)
parse_i64(digits, acc) ==
    IF digits = <<>> THEN IntLit(acc)
    ELSE LET next == acc * 10 + DigitValue(Head(digits))
         IN  IF next > MaxInt THEN None ELSE parse_i64(Tail(digits), next)

\* The whole part of a float's digits, saturating just above FloatMax.
RECURSIVE WholePart(_, _)
WholePart(digits, acc) ==
    IF digits = <<>> THEN acc
    ELSE LET next == acc * 10 + DigitValue(Head(digits))
         IN  IF next > FloatMax THEN FloatMax + 1 ELSE WholePart(Tail(digits), next)

\* The fraction digits against one half: -1 below, 0 equal, 1 above.
FractionVsHalf(digits) ==
    IF digits = <<>> THEN -1
    ELSE LET d == DigitValue(Head(digits))
             rest == {k \in 2..Len(digits) : digits[k] # "0"}
         IN  IF d > 5 THEN 1
             ELSE IF d < 5 THEN -1
             ELSE IF rest # {} THEN 1 ELSE 0

\* str::parse::<f64> on digits with one `.`: the nearest value of the
\* modelled precision, ties to even.
parse_f64(num_str) ==
    LET dot == CHOOSE k \in 1..Len(num_str) : num_str[k] = "."
        whole == WholePart(SubSeq(num_str, 1, dot - 1), 0)
        half == FractionVsHalf(SubSeq(num_str, dot + 1, Len(num_str)))
        up == half = 1 \/ (half = 0 /\ whole % 2 = 1)
    IN  FNorm(IF up THEN whole + 1 ELSE whole)

\* The loop of read_number: digits, and the first `.` met.
RECURSIVE number_loop(_, _, _, _)
number_loop(src, lx, num_str, is_float) ==
    LET ch == current_char(src, lx)
    IN  IF is_ascii_digit(ch)
        THEN number_loop(src, Lexer_advance(src, lx), Append(num_str, ch), is_float)
        ELSE IF ch = "." /\ ~is_float
        THEN number_loop(src, Lexer_advance(src, lx), Append(num_str, ch), TRUE)
        ELSE [num_str |-> num_str, is_float |-> is_float, lexer |-> lx]

\* A read_number that clamps an integer out of range instead of failing.
read_number_saturating(src, lx) ==
    IF number_loop(src, lx, <<>>, FALSE).is_float
    THEN LexOk(TokFloat(parse_f64(number_loop(src, lx, <<>>, FALSE).num_str)),
               number_loop(src, lx, <<>>, FALSE).lexer)
    ELSE IF parse_i64(number_loop(src, lx, <<>>, FALSE).num_str, 0) = None
    THEN LexOk(TokInteger(MaxInt), number_loop(src, lx, <<>>, FALSE).lexer)
    ELSE LexOk(TokInteger(
                   parse_i64(number_loop(src, lx, <<>>, FALSE).num_str, 0).lit.i),
               number_loop(src, lx, <<>>, FALSE).lexer)

\* Lexer::read_number.
read_number(src, lx) ==
    LET start_line == lx.line
        start_col == lx.column
        read == number_loop(src, lx, <<>>, FALSE)
    IN  IF read.is_float
        THEN LexOk(TokFloat(parse_f64(read.num_str)), read.lexer)
        ELSE LET n == parse_i64(read.num_str, 0)
             IN  IF n = None
                 THEN LexErr("Invalid integer: " \o Concat(read.num_str),
                             start_line, start_col, read.lexer)
                 ELSE LexOk(TokInteger(n.lit.i), read.lexer)

\* The character an escape stands for; NoChar when it is not an escape.
Escape(ch) ==
    CASE ch = "n" -> "\n"
      [] ch = "t" -> "\t"
      [] ch = "r" -> "\r"
      [] ch = "\\" -> "\\"
      [] ch = "'" -> "'"
      [] OTHER -> NoChar

\* The loop of read_string, after the opening quote.
RECURSIVE string_loop(_, _, _, _, _)
string_loop(src, lx, result, start_line, start_col) ==
    LET ch == current_char(src, lx)
        after == Lexer_advance(src, lx)
    IN  IF ch = NoChar
        THEN LexErr("Unterminated string literal", start_line, start_col, lx)
        ELSE IF ch = "'" THEN LexOk(TokString(result), after)
        ELSE IF ch = "\\"
        THEN LET escaped == Escape(current_char(src, after))
             IN  IF escaped = NoChar
                 THEN LexErr("Invalid escape sequence", after.line, after.column, after)
                 ELSE string_loop(src, Lexer_advance(src, after), result \o escaped,
                                  start_line, start_col)
        ELSE string_loop(src, after, result \o ch, start_line, start_col)

\* Lexer::read_string.
read_string(src, lx) ==
    string_loop(src, Lexer_advance(src, lx), "", lx.line, lx.column)

\* The keyword table of read_identifier.
Keyword(ident) ==
    CASE ident = "let" -> "Let"
      [] ident = "in" -> "In"
      [] ident = "if" -> "If"
      [] ident = "then" -> "Then"
      [] ident = "else" -> "Else"
      [] ident = "fn" -> "Fn"
      [] ident = "guard" -> "Guard"
      [] ident = "true" -> "True"
      [] ident = "false" -> "False"
      [] ident = "null" -> "Null"
      [] ident = "NOW" -> "Now"
      [] ident = "TODAY" -> "Today"
      [] ident = "TOMORROW" -> "Tomorrow"
      [] ident = "YESTERDAY" -> "Yesterday"
      [] ident = "SOD" -> "StartOfDay"
      [] ident = "EOD" -> "EndOfDay"
      [] ident = "SOW" -> "StartOfWeek"
      [] ident = "EOW" -> "EndOfWeek"
      [] ident = "SOM" -> "StartOfMonth"
      [] ident = "EOM" -> "EndOfMonth"
      [] ident = "SOQ" -> "StartOfQuarter"
      [] ident = "EOQ" -> "EndOfQuarter"
      [] ident = "SOY" -> "StartOfYear"
      [] ident = "EOY" -> "EndOfYear"
      [] ident = "BOT" -> "BeginningOfTime"
      [] ident = "EOT" -> "EndOfTime"
      [] OTHER -> "Identifier"

\* The loop of read_identifier.
RECURSIVE identifier_loop(_, _, _)
identifier_loop(src, lx, ident) ==
    LET ch == current_char(src, lx)
    IN  IF is_alphanumeric(ch) \/ ch = "_"
        THEN identifier_loop(src, Lexer_advance(src, lx), ident \o ch)
        ELSE [ident |-> ident, lexer |-> lx]

\* Lexer::read_identifier.
read_identifier(src, lx) ==
    LET read == identifier_loop(src, lx, "")
        variant == Keyword(read.ident)
    IN  IF variant = "Identifier" THEN LexOk(TokIdentifier(read.ident), read.lexer)
        ELSE LexOk(Token(variant), read.lexer)

\* The one-character tokens of next_token.
SingleChar(ch) ==
    CASE ch = "+" -> "Plus"
      [] ch = "-" -> "Minus"
      [] ch = "*" -> "Star"
      [] ch = "/" -> "Slash"
      [] ch = "%" -> "Percent"
      [] ch = "^" -> "Caret"
      [] ch = "." -> "Dot"
      [] ch = "," -> "Comma"
      [] ch = "(" -> "LeftParen"
      [] ch = ")" -> "RightParen"
      [] ch = "[" -> "LeftBracket"
      [] ch = "]" -> "RightBracket"
      [] ch = "{" -> "LeftBrace"
      [] ch = "}" -> "RightBrace"
      [] ch = ":" -> "Colon"
      [] ch = ";" -> "Semicolon"
      [] OTHER -> "None"

\* The arms of next_token that look at the character after ch: the token
\* of ch followed by next, "None" when ch alone is an error.
TwoChar(ch, next) ==
    CASE ch = "=" -> (IF next = "=" THEN "EqualEqual"
                      ELSE IF next = ">" THEN "Arrow" ELSE "Equal")
      [] ch = "!" -> (IF next = "=" THEN "NotEqual" ELSE "Bang")
      [] ch = "<" -> (IF next = "=" THEN "LessEqual" ELSE "Less")
      [] ch = ">" -> (IF next = "=" THEN "GreaterEqual" ELSE "Greater")
      [] ch = "&" -> (IF next = "&" THEN "AndAnd" ELSE "None")
      [] ch = "|" -> (IF next = "|" THEN "OrOr"
                      ELSE IF next = ">" THEN "Pipe" ELSE "None")
      [] ch = "?" -> (IF next = "|" THEN "Alternative" ELSE "None")
      [] ch = "~" -> (IF next = ">" THEN "LambdaArrow" ELSE "None")
OneCharTokens == {"Equal", "Bang", "Less", "Greater"}
LoneCharMessage(ch) ==
    CASE ch = "&" -> "Unexpected '&', did you mean '&&'?"
      [] ch = "|" -> "Unexpected '|', did you mean '||' or '|>'?"
      [] ch = "?" -> "Unexpected '?', did you mean '?|'?"
      [] ch = "~" -> "Unexpected '~', did you mean '~>'?"

\* Lexer::next_token.
next_token(src, lx0) ==
    LET lx == skip_whitespace(src, lx0)
        ch == current_char(src, lx)
        after == Lexer_advance(src, lx)
    IN  IF ch = NoChar THEN LexOk(Eof, lx)
        ELSE IF SingleChar(ch) # "None" THEN LexOk(Token(SingleChar(ch)), after)
        ELSE IF ch \in {"=", "!", "<", ">", "&", "|", "?", "~"} THEN
            LET variant == TwoChar(ch, current_char(src, after))
            IN  IF variant = "None"
                THEN LexErr(LoneCharMessage(ch), after.line, after.column - 1, after)
                ELSE IF variant \in OneCharTokens THEN LexOk(Token(variant), after)
                ELSE LexOk(Token(variant), Lexer_advance(src, after))
        ELSE IF ch = "'" THEN read_string(src, lx)
        ELSE IF is_ascii_digit(ch) THEN read_number(src, lx)
        ELSE IF is_alphabetic(ch) THEN read_identifier(src, lx)
        ELSE LexErr("Unexpected character: '" \o ch \o "'", lx.line, lx.column, lx)

\* Lexer::tokenize: Ok(tokens) or the first error.
RECURSIVE tokenize_loop(_, _, _)
tokenize_loop(src, lx, toks) ==
    LET step == next_token(src, lx)
    IN  IF ~step.ok THEN [ok |-> FALSE, tokens |-> <<>>, error |-> step.error]
        ELSE IF step.token = Eof
        THEN [ok |-> TRUE, tokens |-> Append(toks, step.token), error |-> NoError]
        ELSE tokenize_loop(src, step.lexer, Append(toks, step.token))
tokenize(src) == tokenize_loop(src, Lexer_new, <<>>)

----------------------------------------------------------------------------
(* The parser (src/parser/mod.rs).  The parser's state is the token        *)
(* sequence and the cursor `current` (0-based); every parse function maps  *)
(* the cursor it starts at to a result and the cursor it stops at.         *)

\* impl fmt::Display for Token.
FixedTokenText ==
    [Plus |-> "+", Minus |-> "-", Star |-> "*", Slash |-> "/", Percent |-> "%",
     Caret |-> "^", Equal |-> "=", EqualEqual |-> "==", NotEqual |-> "!=",
     Less |-> "<", LessEqual |-> "<=", Greater |-> ">", GreaterEqual |-> ">=",
     AndAnd |-> "&&", OrOr |-> "||", Bang |-> "!", Let |-> "let", In |-> "in",
     If |-> "if", Then |-> "then", Else |-> "else", Fn |-> "fn",
     Guard |-> "guard", True |-> "true", False |-> "false", Null |-> "null",
     Now |-> "NOW", Today |-> "TODAY", Tomorrow |-> "TOMORROW",
     Yesterday |-> "YESTERDAY", StartOfDay |-> "SOD", EndOfDay |-> "EOD",
     StartOfWeek |-> "SOW", EndOfWeek |-> "EOW", StartOfMonth |-> "SOM",
     EndOfMonth |-> "EOM", StartOfQuarter |-> "SOQ", EndOfQuarter |-> "EOQ",
     StartOfYear |-> "SOY", EndOfYear |-> "EOY", BeginningOfTime |-> "BOT",
     EndOfTime |-> "EOT", Dot |-> ".", Comma |-> ",", LeftParen |-> "(",
     RightParen |-> ")", LeftBracket |-> "[", RightBracket |-> "]",
     LeftBrace |-> "{", RightBrace |-> "}", Colon |-> ":", Semicolon |-> ";",
     Arrow |-> "=>", Pipe |-> "|>", LambdaArrow |-> "~>", Alternative |-> "?|",
     Eof |-> "EOF"]
FloatText(x) ==
    CASE x.c = "fin" -> ToString(x.n)
      [] x.c = "nan" -> "NaN"
      [] x.c = "inf" -> "inf"
      [] x.c = "ninf" -> "-inf"
TokenText(t) ==
    CASE t.type = "Integer" -> ToString(t.int)
      [] t.type = "Float" -> FloatText(t.flt)
      [] t.type = "String" -> "'" \o t.text \o "'"
      [] t.type = "Identifier" -> t.text
      [] OTHER -> FixedTokenText[t.type]

\* ParseError::new (the context is None).
ParseError(message, line, column) ==
    [message |-> message, line |-> line, column |-> column]

\* Result<Expr, ParseError> with the cursor after the call.
ParseOk(e, cur) == [ok |-> TRUE, expr |-> e, error |-> NoError, current |-> cur]
ParseErr(message, cur) ==
    [ok |-> FALSE, expr |-> Null, error |-> ParseError(message, 1, 1),
     current |-> cur]
\* Result<Vec<_>, ParseError> with the cursor after the call.
ListOk(items, cur) ==
    [ok |-> TRUE, items |-> items, error |-> NoError, current |-> cur]
ListErr(failed) ==
    [ok |-> FALSE, items |-> <<>>, error |-> failed.error, current |-> failed.current]

\* Parser::peek, Parser::advance (the cursor after it), Parser::check.
peek(toks, cur) == IF cur < Len(toks) THEN toks[cur + 1] ELSE Eof
advance(toks, cur) == IF cur < Len(toks) THEN cur + 1 ELSE cur
check(toks, cur, type) == peek(toks, cur).type = type

\* Parser::expect.
expect(toks, cur, expected) ==
    IF check(toks, cur, expected) THEN ParseOk(Null, advance(toks, cur))
    ELSE ParseErr("Expected " \o FixedTokenText[expected] \o ", found "
                  \o TokenText(peek(toks, cur)), cur)

\* The operator each binary level reads from the token under the cursor
\* ("None": the level's loop ends).
equality_op(type) ==
    CASE type = "EqualEqual" -> "Eq" [] type = "NotEqual" -> "Neq" [] OTHER -> "None"
comparison_op(type) ==
    CASE type = "Less" -> "Lt" [] type = "LessEqual" -> "Lte"
      [] type = "Greater" -> "Gt" [] type = "GreaterEqual" -> "Gte"
      [] OTHER -> "None"
addition_op(type) ==
    CASE type = "Plus" -> "Add" [] type = "Minus" -> "Sub" [] OTHER -> "None"
\* A multiplication level that also takes `+`, which the code does not do.
multiplication_op_with_plus(type) ==
    CASE type = "Star" -> "Mul" [] type = "Slash" -> "Div"
      [] type = "Percent" -> "Mod" [] type = "Plus" -> "Add" [] OTHER -> "None"
multiplication_op(type) ==
    CASE type = "Star" -> "Mul" [] type = "Slash" -> "Div"
      [] type = "Percent" -> "Mod" [] OTHER -> "None"

\* The `?` operator on a Result: an Err returns from the function at once,
\* an Ok value goes on to the rest of the function.
Try(result, Then(_)) ==
    CHOOSE out \in {IF r.ok THEN Then(r) ELSE r : r \in {result}} : TRUE

RECURSIVE parse_expression(_, _), parse_pipe(_, _), parse_logical_or(_, _)
RECURSIVE parse_logical_and(_, _), parse_equality(_, _), parse_comparison(_, _)
RECURSIVE parse_addition(_, _), parse_multiplication(_, _), parse_power(_, _)
RECURSIVE parse_unary(_, _), parse_postfix(_, _), parse_primary(_, _)
RECURSIVE pipe_chain(_, _, _), logical_or_loop(_, _, _), logical_and_loop(_, _, _)
RECURSIVE equality_loop(_, _, _), comparison_loop(_, _, _), addition_loop(_, _, _)
RECURSIVE multiplication_loop(_, _, _), postfix_loop(_, _, _), power_loop(_, _, _)
RECURSIVE expression_list(_, _, _), object_fields_loop(_, _, _)

\* Parser::parse_pipe and its while loop.
pipe_chain(toks, e, cur) ==
    IF check(toks, cur, "Pipe") THEN
        Try(parse_logical_or(toks, advance(toks, cur)), LAMBDA func :
            pipe_chain(toks, Pipe(e, <<func.expr>>), func.current))
    ELSE ParseOk(e, cur)
parse_pipe(toks, cur) ==
    Try(parse_logical_or(toks, cur), LAMBDA first :
        pipe_chain(toks, first.expr, first.current))

\* Parser::parse_logical_or and its while loop.
logical_or_loop(toks, e, cur) ==
    IF check(toks, cur, "OrOr") THEN
        Try(parse_logical_and(toks, advance(toks, cur)), LAMBDA right :
            logical_or_loop(toks, BinaryOp("Or", e, right.expr), right.current))
    ELSE ParseOk(e, cur)
parse_logical_or(toks, cur) ==
    Try(parse_logical_and(toks, cur), LAMBDA first :
        logical_or_loop(toks, first.expr, first.current))

\* Parser::parse_logical_and and its while loop.
logical_and_loop(toks, e, cur) ==
    IF check(toks, cur, "AndAnd") THEN
        Try(parse_equality(toks, advance(toks, cur)), LAMBDA right :
            logical_and_loop(toks, BinaryOp("And", e, right.expr), right.current))
    ELSE ParseOk(e, cur)
parse_logical_and(toks, cur) ==
    Try(parse_equality(toks, cur), LAMBDA first :
        logical_and_loop(toks, first.expr, first.current))

\* Parser::parse_equality and its loop.
equality_loop(toks, e, cur) ==
    IF equality_op(peek(toks, cur).type) = "None" THEN ParseOk(e, cur)
    ELSE Try(parse_comparison(toks, advance(toks, cur)), LAMBDA right :
             equality_loop(toks,
                           BinaryOp(equality_op(peek(toks, cur).type), e, right.expr),
                           right.current))
parse_equality(toks, cur) ==
    Try(parse_comparison(toks, cur), LAMBDA first :
        equality_loop(toks, first.expr, first.current))

\* Parser::parse_comparison and its loop.
comparison_loop(toks, e, cur) ==
    IF comparison_op(peek(toks, cur).type) = "None" THEN ParseOk(e, cur)
    ELSE Try(parse_addition(toks, advance(toks, cur)), LAMBDA right :
             comparison_loop(toks,
                             BinaryOp(comparison_op(peek(toks, cur).type), e, right.expr),
                             right.current))
parse_comparison(toks, cur) ==
    Try(parse_addition(toks, cur), LAMBDA first :
        comparison_loop(toks, first.expr, first.current))

\* Parser::parse_addition and its loop.
addition_loop(toks, e, cur) ==
    IF addition_op(peek(toks, cur).type) = "None" THEN ParseOk(e, cur)
    ELSE Try(parse_multiplication(toks, advance(toks, cur)), LAMBDA right :
             addition_loop(toks,
                           BinaryOp(addition_op(peek(toks, cur).type), e, right.expr),
                           right.current))
parse_addition(toks, cur) ==
    Try(parse_multiplication(toks, cur), LAMBDA first :
        addition_loop(toks, first.expr, first.current))

\* Parser::parse_multiplication and its loop.
multiplication_loop(toks, e, cur) ==
    IF multiplication_op(peek(toks, cur).type) = "None" THEN ParseOk(e, cur)
    ELSE Try(parse_power(toks, advance(toks, cur)), LAMBDA right :
             multiplication_loop(toks,
                                 BinaryOp(multiplication_op(peek(toks, cur).type),
                                          e, right.expr),
                                 right.current))
parse_multiplication(toks, cur) ==
    Try(parse_power(toks, cur), LAMBDA first :
        multiplication_loop(toks, first.expr, first.current))

\* A power level that folds left like the other levels, which the code
\* does not do.
power_loop(toks, e, cur) ==
    IF check(toks, cur, "Caret") THEN
        Try(parse_unary(toks, advance(toks, cur)), LAMBDA right :
            power_loop(toks, BinaryOp("Pow", e, right.expr), right.current))
    ELSE ParseOk(e, cur)
parse_power_left(toks, cur) ==
    Try(parse_unary(toks, cur), LAMBDA first :
        power_loop(toks, first.expr, first.current))

\* Parser::parse_power: the right operand is parsed by parse_power itself.
parse_power(toks, cur) ==
    Try(parse_unary(toks, cur), LAMBDA first :
        IF check(toks, first.current, "Caret") THEN
            Try(parse_power(toks, advance(toks, first.current)), LAMBDA right :
                ParseOk(BinaryOp("Pow", first.expr, right.expr), right.current))
        ELSE first)

\* Parser::parse_unary.
unary_op(type) ==
    CASE type = "Bang" -> "Not" [] type = "Minus" -> "Neg"
      [] type = "Plus" -> "Plus" [] OTHER -> "None"
parse_unary(toks, cur) ==
    IF unary_op(peek(toks, cur).type) = "None" THEN parse_postfix(toks, cur)
    ELSE Try(parse_unary(toks, advance(toks, cur)), LAMBDA operand :
             ParseOk(UnaryOp(unary_op(peek(toks, cur).type), operand.expr),
                     operand.current))

\* Parser::parse_postfix and its loop.
postfix_loop(toks, e, cur) ==
    IF check(toks, cur, "Dot") THEN
        IF peek(toks, advance(toks, cur)).type = "Identifier"
        THEN postfix_loop(toks, FieldAccess(e, peek(toks, advance(toks, cur)).text),
                          advance(toks, advance(toks, cur)))
        ELSE ParseErr("Expected field name after '.'",
                      advance(toks, advance(toks, cur)))
    ELSE ParseOk(e, cur)
parse_postfix(toks, cur) ==
    Try(parse_primary(toks, cur), LAMBDA first :
        postfix_loop(toks, first.expr, first.current))

\* `?` in a function that returns a list of expressions.
TryItem(result, Then(_)) ==
    CHOOSE out \in {IF r.ok THEN Then(r) ELSE ListErr(r) : r \in {result}} : TRUE

\* The loop shared by parse_function_args and parse_array_elements:
\* expressions separated by commas.
expression_list(toks, items, cur) ==
    TryItem(parse_expression(toks, cur), LAMBDA item :
        IF check(toks, item.current, "Comma")
        THEN expression_list(toks, Append(items, item.expr),
                             advance(toks, item.current))
        ELSE ListOk(Append(items, item.expr), item.current))

\* Parser::parse_function_args.
parse_function_args(toks, cur) ==
    IF check(toks, cur, "RightParen") THEN ListOk(<<>>, cur)
    ELSE expression_list(toks, <<>>, cur)

\* Parser::parse_array_elements.
parse_array_elements(toks, cur) ==
    IF check(toks, cur, "RightBracket") THEN ListOk(<<>>, cur)
    ELSE expression_list(toks, <<>>, cur)

\* Parser::parse_object_fields and its loop.
object_fields_loop(toks, fields, cur) ==
    IF peek(toks, cur).type \notin {"Identifier", "String"}
    THEN ListErr(ParseErr("Expected field name in object literal",
                          advance(toks, cur)))
    ELSE
    TryItem(expect(toks, advance(toks, cur), "Colon"), LAMBDA colon :
    TryItem(parse_expression(toks, colon.current), LAMBDA value :
        IF check(toks, value.current, "Comma")
        THEN object_fields_loop(toks,
                                Append(fields, <<peek(toks, cur).text, value.expr>>),
                                advance(toks, value.current))
        ELSE ListOk(Append(fields, <<peek(toks, cur).text, value.expr>>),
                    value.current)))
parse_object_fields(toks, cur) ==
    IF check(toks, cur, "RightBrace") THEN ListOk(<<>>, cur)
    ELSE object_fields_loop(toks, <<>>, cur)

\* Parser::parse_let.
parse_let(toks, cur) ==
    Try(expect(toks, cur, "Let"), LAMBDA kw :
        IF peek(toks, kw.current).type # "Identifier"
        THEN ParseErr("Expected variable name after 'let'",
                      advance(toks, kw.current))
        ELSE
    Try(expect(toks, advance(toks, kw.current), "Equal"), LAMBDA eq :
    Try(parse_expression(toks, eq.current), LAMBDA value :
    Try(expect(toks, value.current, "In"), LAMBDA in :
    Try(parse_expression(toks, in.current), LAMBDA body :
        ParseOk(Let(peek(toks, kw.current).text, value.expr, body.expr),
                body.current))))))

\* Parser::parse_if.
parse_if(toks, cur) ==
    Try(expect(toks, cur, "If"), LAMBDA kw :
    Try(parse_expression(toks, kw.current), LAMBDA condition :
    Try(expect(toks, condition.current, "Then"), LAMBDA then :
    Try(parse_expression(toks, then.current), LAMBDA then_branch :
    Try(expect(toks, then_branch.current, "Else"), LAMBDA else :
    Try(parse_expression(toks, else.current), LAMBDA else_branch :
        ParseOk(If(condition.expr, then_branch.expr, else_branch.expr),
                else_branch.current)))))))

\* Parser::parse_lambda.
parse_lambda(toks, cur) ==
    Try(expect(toks, cur, "Fn"), LAMBDA kw :
    Try(expect(toks, kw.current, "LeftParen"), LAMBDA open :
        IF peek(toks, open.current).type # "Identifier"
        THEN ParseErr("Expected parameter name in lambda",
                      advance(toks, open.current))
        ELSE
    Try(expect(toks, advance(toks, open.current), "LambdaArrow"), LAMBDA arrow :
    Try(parse_expression(toks, arrow.current), LAMBDA body :
    Try(expect(toks, body.current, "RightParen"), LAMBDA close :
        ParseOk(Lambda(peek(toks, open.current).text, body.expr),
                close.current))))))

\* Parser::parse_guard.
parse_guard(toks, cur) ==
    Try(expect(toks, cur, "Guard"), LAMBDA kw :
    Try(parse_expression(toks, kw.current), LAMBDA condition :
    Try(expect(toks, condition.current, "In"), LAMBDA in :
    Try(parse_expression(toks, in.current), LAMBDA body :
        ParseOk(Guard(condition.expr, body.expr), body.current)))))

\* The temporal keyword tokens carry the names of the TemporalKeyword
\* variants.
TemporalTokens == TemporalKeywords

\* `?` on a list of expressions in a function that returns one expression.
TryItems(result, Then(_)) ==
    IF result.ok THEN Then(result)
    ELSE ParseErr(result.error.message, result.current)

\* The arms of parse_primary that read a bracketed form.
primary_call(toks, name, cur) ==
    TryItems(parse_function_args(toks, cur), LAMBDA args :
    Try(expect(toks, args.current, "RightParen"), LAMBDA close :
        ParseOk(FunctionCall(name, args.items), close.current)))
primary_parenthesized(toks, cur) ==
    Try(parse_expression(toks, cur), LAMBDA inner :
    Try(expect(toks, inner.current, "RightParen"), LAMBDA close :
        ParseOk(inner.expr, close.current)))
primary_array(toks, cur) ==
    TryItems(parse_array_elements(toks, cur), LAMBDA elements :
    Try(expect(toks, elements.current, "RightBracket"), LAMBDA close :
        ParseOk(Array(elements.items), close.current)))
primary_object(toks, cur) ==
    TryItems(parse_object_fields(toks, cur), LAMBDA fields :
    Try(expect(toks, fields.current, "RightBrace"), LAMBDA close :
        ParseOk(Object(fields.items), close.current)))

\* The arm of parse_primary for the token t under the cursor, next being
\* the cursor after it.
primary_of(toks, t, cur, next) ==
    CASE t.type = "Integer" -> ParseOk(IntLit(t.int), next)
      [] t.type = "Float" -> ParseOk(FloatLit(t.flt), next)
      [] t.type = "True" -> ParseOk(BoolLit(TRUE), next)
      [] t.type = "False" -> ParseOk(BoolLit(FALSE), next)
      [] t.type = "Null" -> ParseOk(Null, next)
      [] t.type = "String" -> ParseOk(String(t.text), next)
      [] t.type = "Identifier" ->
            IF check(toks, next, "LeftParen")
            THEN primary_call(toks, t.text, advance(toks, next))
            ELSE ParseOk(Identifier(t.text), next)
      [] t.type = "LeftParen" -> primary_parenthesized(toks, next)
      [] t.type = "LeftBracket" -> primary_array(toks, next)
      [] t.type = "LeftBrace" -> primary_object(toks, next)
      [] t.type = "Let" -> parse_let(toks, cur)
      [] t.type = "If" -> parse_if(toks, cur)
      [] t.type = "Fn" -> parse_lambda(toks, cur)
      [] t.type = "Guard" -> parse_guard(toks, cur)
      [] t.type \in TemporalTokens -> ParseOk(TemporalKeyword(t.type), next)
      [] OTHER -> ParseErr("Unexpected token: " \o TokenText(t), cur)

\* Parser::parse_primary.
parse_primary(toks, cur) == primary_of(toks, peek(toks, cur), cur, advance(toks, cur))

\* Parser::parse_expression.
parse_expression(toks, cur) == parse_pipe(toks, cur)

\* Parser::parse: Ok(expr) or the error, the lexer's error carried over
\* with its line and column.
parse_tokens(lexed) ==
    IF ~lexed.ok
    THEN [ok |-> FALSE, expr |-> Null,
          error |-> ParseError(lexed.error.message, lexed.error.line,
                               lexed.error.column),
          current |-> 0]
    ELSE parse_expression(lexed.tokens, 0)
parse(src) == parse_tokens(tokenize(src))

\* The pipe chain `email |> lowercase() |> trim()`.
ChainSource ==
    <<"e", "m", "a", "i", "l", " ", "|", ">", " ", "l", "o", "w", "e", "r",
      "c", "a", "s", "e", "(", ")", " ", "|", ">", " ", "t", "r", "i", "m",
      "(", ")">>

\* Further source texts: every form of the grammar, and texts the lexer
\* or the parser refuses.
OtherSources ==
    {<<"1", " ", "+", " ", "2", " ", "*", " ", "3">>,
     <<"2", " ", "^", " ", "3", " ", "^", " ", "2">>,
     <<"(", "1", " ", "+", " ", "2", ")", " ", "*", " ", "3">>,
     <<"-", "a", " ", "^", " ", "!", "b">>,
     <<"u", "s", "e", "r", ".", "a", "g", "e", " ", ">", "=", " ", "1",
       "8">>,
     <<"l", "e", "t", " ", "x", " ", "=", " ", "1", " ", "i", "n", " ",
       "x", " ", "+", " ", "1">>,
     <<"i", "f", " ", "a", " ", "t", "h", "e", "n", " ", "1", " ", "e",
       "l", "s", "e", " ", "2">>,
     <<"f", "n", "(", "x", " ", "~", ">", " ", "x", " ", "*", " ", "2",
       ")">>,
     <<"g", "u", "a", "r", "d", " ", "a", " ", "i", "n", " ", "b">>,
     <<"[", "1", ",", " ", "2", ".", "5", ",", " ", "'", "i", "t", "\\",
       "'", "s", "'", "]">>,
     <<"{", "k", ":", " ", "1", ",", " ", "'", "q", "'", ":", " ", "N",
       "O", "W", "}">>,
     <<"l", "e", "n", "g", "t", "h", "(", "n", "a", "m", "e", ")", " ",
       ">", " ", "0", " ", "&", "&", " ", "c", "o", "n", "t", "a", "i",
       "n", "s", "(", "s", ",", " ", "'", "a", "'", ")">>,
     <<"x", " ", "|", ">", " ", "f", " ", "|", ">", " ", "g", "(", "1",
       ")">>,
     <<"a", "g", "e", " ", ">", "=", " ", "1", "8", ")">>,
     <<"1", " ", "2">>,
     <<"a", " ", "?", "|", " ", "b">>,
     <<"1", "2", "8">>,
     <<"a", " ", "&", " ", "b">>,
     <<"'", "o", "p", "e", "n">>,
     <<"'", "a", "\\", "q", "'">>,
     <<"1", ".">>,
     <<"a", ".", "1">>,
     <<"f", "(", "1", ",">>,
     <<"l", "e", "t", " ", "1">>,
     <<"{", "1", ":", " ", "2", "}">>,
     <<"i", "f", " ", "a", " ", "1">>,
     <<"f", "n", " ", "x">>,
     <<"_", "a">>,
     <<"a", "\n", "+", " ", "#">>,
     <<>>}

\* Pipe chains of one, two and three steps, each with the piped value and
\* the steps in source order.
PipeChains ==
    {[text |-> <<"a", " ", "|", ">", " ", "f">>,
      value |-> Identifier("a"), steps |-> <<Identifier("f")>>],
     [text |-> ChainSource,
      value |-> Identifier("email"),
      steps |-> <<FunctionCall("lowercase", <<>>), FunctionCall("trim", <<>>)>>],
     [text |-> <<"x", " ", "|", ">", " ", "f", " ", "|", ">", " ", "g", "(",
                 "1", ")">>,
      value |-> Identifier("x"),
      steps |-> <<Identifier("f"), FunctionCall("g", <<IntLit(1)>>)>>],
     [text |-> <<"n", "a", "m", "e", " ", "|", ">", " ", "u", "p", "p", "e",
                 "r", "c", "a", "s", "e", "(", ")", " ", "|", ">", " ", "t",
                 "r", "i", "m", "(", ")", " ", "|", ">", " ", "l", "e", "n",
                 "g", "t", "h", "(", ")">>,
      value |-> Identifier("name"),
      steps |-> <<FunctionCall("uppercase", <<>>), FunctionCall("trim", <<>>),
                  FunctionCall("length", <<>>)>>]}

\* The temporal keywords under their long names, each with the
\* TemporalKeyword variant it denotes.
LongKeywords ==
    {[text |-> <<"N", "O", "W">>,
      keyword |-> "Now"],
     [text |-> <<"T", "O", "D", "A", "Y">>,
      keyword |-> "Today"],
     [text |-> <<"T", "O", "M", "O", "R", "R", "O", "W">>,
      keyword |-> "Tomorrow"],
     [text |-> <<"Y", "E", "S", "T", "E", "R", "D", "A", "Y">>,
      keyword |-> "Yesterday"],
     [text |-> <<"S", "T", "A", "R", "T", "_", "O", "F", "_", "D", "A", "Y">>,
      keyword |-> "StartOfDay"],
     [text |-> <<"E", "N", "D", "_", "O", "F", "_", "D", "A", "Y">>,
      keyword |-> "EndOfDay"],
     [text |-> <<"S", "T", "A", "R", "T", "_", "O", "F", "_", "W", "E", "E",
                 "K">>,
      keyword |-> "StartOfWeek"],
     [text |-> <<"E", "N", "D", "_", "O", "F", "_", "W", "E", "E", "K">>,
      keyword |-> "EndOfWeek"],
     [text |-> <<"S", "T", "A", "R", "T", "_", "O", "F", "_", "M", "O", "N",
                 "T", "H">>,
      keyword |-> "StartOfMonth"],
     [text |-> <<"E", "N", "D", "_", "O", "F", "_", "M", "O", "N", "T", "H">>,
      keyword |-> "EndOfMonth"],
     [text |-> <<"S", "T", "A", "R", "T", "_", "O", "F", "_", "Q", "U", "A",
                 "R", "T", "E", "R">>,
      keyword |-> "StartOfQuarter"],
     [text |-> <<"E", "N", "D", "_", "O", "F", "_", "Q", "U", "A", "R", "T",
                 "E", "R">>,
      keyword |-> "EndOfQuarter"],
     [text |-> <<"S", "T", "A", "R", "T", "_", "O", "F", "_", "Y", "E", "A",
                 "R">>,
      keyword |-> "StartOfYear"],
     [text |-> <<"E", "N", "D", "_", "O", "F", "_", "Y", "E", "A", "R">>,
      keyword |-> "EndOfYear"],
     [text |-> <<"B", "E", "G", "I", "N", "N", "I", "N", "G", "_", "O", "F",
                 "_", "T", "I", "M", "E">>,
      keyword |-> "BeginningOfTime"],
     [text |-> <<"E", "N", "D", "_", "O", "F", "_", "T", "I", "M", "E">>,
      keyword |-> "EndOfTime"]}

\* The temporal keywords under the abbreviations of the lexer's table.
ShortKeywords ==
    {[text |-> <<"S", "O", "D">>,
      keyword |-> "StartOfDay"],
     [text |-> <<"E", "O", "D">>,
      keyword |-> "EndOfDay"],
     [text |-> <<"S", "O", "W">>,
      keyword |-> "StartOfWeek"],
     [text |-> <<"E", "O", "W">>,
      keyword |-> "EndOfWeek"],
     [text |-> <<"S", "O", "M">>,
      keyword |-> "StartOfMonth"],
     [text |-> <<"E", "O", "M">>,
      keyword |-> "EndOfMonth"],
     [text |-> <<"S", "O", "Q">>,
      keyword |-> "StartOfQuarter"],
     [text |-> <<"E", "O", "Q">>,
      keyword |-> "EndOfQuarter"],
     [text |-> <<"S", "O", "Y">>,
      keyword |-> "StartOfYear"],
     [text |-> <<"E", "O", "Y">>,
      keyword |-> "EndOfYear"],
     [text |-> <<"B", "O", "T">>,
      keyword |-> "BeginningOfTime"],
     [text |-> <<"E", "O", "T">>,
      keyword |-> "EndOfTime"]}

(* Inputs of the parser: `a OP1 b OP2 c` over every pair of binary         *)
(* operators, written with and without spaces, and further source texts.   *)
Operands ==
    {[text |-> <<"a">>, expr |-> Identifier("a")],
     [text |-> <<"n", "_", "1">>, expr |-> Identifier("n_1")],
     [text |-> <<"7">>, expr |-> IntLit(7)],
     [text |-> <<"1", "2", "7">>, expr |-> IntLit(127)]}
Operators ==
    {[text |-> <<"|", "|">>, op |-> "Or"], [text |-> <<"&", "&">>, op |-> "And"],
     [text |-> <<"=", "=">>, op |-> "Eq"], [text |-> <<"!", "=">>, op |-> "Neq"],
     [text |-> <<"<">>, op |-> "Lt"], [text |-> <<"<", "=">>, op |-> "Lte"],
     [text |-> <<">">>, op |-> "Gt"], [text |-> <<">", "=">>, op |-> "Gte"],
     [text |-> <<"+">>, op |-> "Add"], [text |-> <<"-">>, op |-> "Sub"],
     [text |-> <<"*">>, op |-> "Mul"], [text |-> <<"/">>, op |-> "Div"],
     [text |-> <<"%">>, op |-> "Mod"], [text |-> <<"^">>, op |-> "Pow"]}

Chains ==
    [kind : {"chain"}, a : Operands, op1 : Operators, b : Operands,
     op2 : Operators, c : Operands, spaced : BOOLEAN]
Texts ==
    {[kind |-> "text", text |-> s] :
        s \in OtherSources \cup {c.text : c \in PipeChains}
               \cup {k.text : k \in LongKeywords \cup ShortKeywords}}

\* The source text of a form.
Source(f) ==
    IF f.kind = "text" THEN f.text
    ELSE LET sp == IF f.spaced THEN <<" ">> ELSE <<>>
         IN  f.a.text \o sp \o f.op1.text \o sp \o f.b.text \o sp \o f.op2.text
             \o sp \o f.c.text

NotLexed == [ok |-> FALSE, tokens |-> <<>>, error |-> NoError]
NotParsed == [ok |-> FALSE, expr |-> Null, error |-> NoError, current |-> 0]

ParseInit ==
    /\ p_phase = "source"
    /\ form \in Chains \cup Texts
    /\ input = Source(form)
    /\ tokens = NotLexed
    /\ parsed = NotParsed

\* Parser::parse, first half: Lexer::new(input).tokenize().
Tokenize ==
    /\ p_phase = "source"
    /\ p_phase' = "lexed"
    /\ tokens' = tokenize(input)
    /\ UNCHANGED <<form, input, parsed>>

\* Parser::parse, second half: the lexer's error mapped to a ParseError, or
\* Parser::new(tokens).parse_expression().
Parse ==
    /\ p_phase = "lexed"
    /\ p_phase' = "parsed"
    /\ parsed' = parse_tokens(tokens)
    /\ UNCHANGED <<form, input, tokens>>

----------------------------------------------------------------------------
(* Type inference (src/codegen/type_inference.rs).                         *)
(* An InferredType is a record tagged by `tag`; Array carries its element  *)
(* type and Error its message.  A message is the sequence of the pieces    *)
(* format! concatenates.                                                   *)

Integer == [tag |-> "Integer"]
Float == [tag |-> "Float"]
StringT == [tag |-> "String"]
Boolean == [tag |-> "Boolean"]
NullT == [tag |-> "Null"]
ArrayOf(t) == [tag |-> "Array", elem |-> t]
ObjectT == [tag |-> "Object"]
DateT == [tag |-> "Date"]
DateTimeT == [tag |-> "DateTime"]
DurationT == [tag |-> "Duration"]
Unknown == [tag |-> "Unknown"]
Numeric == [tag |-> "Numeric"]
Error(m) == [tag |-> "Error", msg |-> m]

\* impl fmt::Display for InferredType.
RECURSIVE Display(_)
Display(t) ==
    CASE t.tag = "Integer" -> <<"integer">>
      [] t.tag = "Float" -> <<"float">>
      [] t.tag = "String" -> <<"string">>
      [] t.tag = "Boolean" -> <<"boolean">>
      [] t.tag = "Null" -> <<"null">>
      [] t.tag = "Array" -> <<"[">> \o Display(t.elem) \o <<"]">>
      [] t.tag = "Object" -> <<"object">>
      [] t.tag = "Date" -> <<"date">>
      [] t.tag = "DateTime" -> <<"datetime">>
      [] t.tag = "Duration" -> <<"duration">>
      [] t.tag = "Unknown" -> <<"unknown">>
      [] t.tag = "Numeric" -> <<"number">>
      [] t.tag = "Error" -> <<"error(">> \o t.msg \o <<")">>

is_numeric(t) == t.tag \in {"Integer", "Float", "Numeric"}
is_error(t) == t.tag = "Error"

\* InferredType::common_type.
RECURSIVE common_type(_, _)
common_type(a, b) ==
    IF a = b THEN a
    ELSE IF (a = Integer /\ b = Float) \/ (a = Float /\ b = Integer) THEN Float
    ELSE IF a = Numeric \/ b = Numeric THEN
        LET other == IF a = Numeric THEN b ELSE a
        IN  IF is_numeric(other) THEN other
            ELSE Error(<<"Type mismatch: cannot unify numeric and ">> \o Display(other))
    ELSE IF a = Unknown THEN b
    ELSE IF b = Unknown THEN a
    ELSE IF a.tag = "Array" /\ b.tag = "Array" THEN ArrayOf(common_type(a.elem, b.elem))
    ELSE Error(<<"Type mismatch: cannot unify ">> \o Display(a)
               \o <<" and ">> \o Display(b))

CannotAdd(l, r) == Error(<<"Cannot add ">> \o Display(l) \o <<" and ">> \o Display(r))
CannotArith(l, r) ==
    Error(<<"Cannot apply arithmetic to ">> \o Display(l) \o <<" and ">> \o Display(r))
CannotApply(l, r) ==
    Error(<<"Cannot apply operator to ">> \o Display(l) \o <<" and ">> \o Display(r))

\* Numeric arms that give mixed Integer/Float operands the type of the left
\* operand, which the code does not do.
numeric_arms_left(l, r) ==
    IF l \in {Integer, Float} /\ r \in {Integer, Float} THEN l ELSE None

\* The numeric arms shared by + - * /: None when none of them matches.
numeric_arms(l, r) ==
    IF l = Integer /\ r = Integer THEN Integer
    ELSE IF l = Float /\ r = Float THEN Float
    ELSE IF (l = Integer /\ r = Float) \/ (l = Float /\ r = Integer) THEN Float
    ELSE None

\* The arm `(Unknown, t) | (t, Unknown)` of - * /.
unknown_arm_numeric(l, r) ==
    LET t == IF l = Unknown THEN r ELSE l
    IN  IF is_numeric(t) THEN t ELSE CannotArith(l, r)

\* infer_binary_op, the match on the operator and the two operand types.
binary_op_type(op, left_type, right_type) ==
    LET l == left_type
        r == right_type
    IN
    CASE op = "Add" ->
            IF numeric_arms(l, r) # None THEN numeric_arms(l, r)
            ELSE IF l = StringT /\ r = StringT THEN StringT
            ELSE IF (l = DateT /\ r = DurationT) \/ (l = DurationT /\ r = DateT) THEN DateT
            ELSE IF (l = DateTimeT /\ r = DurationT) \/ (l = DurationT /\ r = DateTimeT)
                 THEN DateTimeT
            ELSE IF l = DurationT /\ r = DurationT THEN DurationT
            ELSE IF l = Unknown THEN r
            ELSE IF r = Unknown THEN l
            ELSE CannotAdd(l, r)
      [] op = "Sub" ->
            IF numeric_arms(l, r) # None THEN numeric_arms(l, r)
            ELSE IF l = DateT /\ r = DurationT THEN DateT
            ELSE IF l = DateTimeT /\ r = DurationT THEN DateTimeT
            ELSE IF l = DateT /\ r = DateT THEN DurationT
            ELSE IF l = DateTimeT /\ r = DateTimeT THEN DurationT
            ELSE IF l = DurationT /\ r = DurationT THEN DurationT
            ELSE IF l = Unknown \/ r = Unknown THEN unknown_arm_numeric(l, r)
            ELSE CannotArith(l, r)
      [] op \in {"Mul", "Div"} ->
            IF numeric_arms(l, r) # None THEN numeric_arms(l, r)
            ELSE IF l = Unknown \/ r = Unknown THEN unknown_arm_numeric(l, r)
            ELSE CannotArith(l, r)
      [] op \in {"Mod", "Pow"} ->
            IF is_numeric(l) /\ is_numeric(r) THEN Integer
            ELSE IF l = Unknown \/ r = Unknown THEN Integer
            ELSE CannotApply(l, r)
      [] op \in {"Eq", "Neq", "Lt", "Lte", "Gt", "Gte"} -> Boolean
      [] op \in {"And", "Or"} -> Boolean

StringFunctions ==
    {"length", "uppercase", "lowercase", "trim", "contains", "starts_with", "ends_with"}
ArrayFunctions == {"map", "filter", "sort"}
NumericFunctions == {"abs", "min", "max", "round", "floor", "ceil"}
BooleanFunctions == {"all", "any"}

RECURSIVE infer_expr(_)

\* TypeInferenceVisitor::infer_binary_op.
infer_binary_op(op, left, right) ==
    binary_op_type(op, infer_expr(left), infer_expr(right))

\* TypeInferenceVisitor::infer_unary_op.
infer_unary_op(op, operand) ==
    LET operand_type == infer_expr(operand)
    IN  IF op = "Not" THEN Boolean ELSE operand_type

\* TypeInferenceVisitor::infer_function_call.
infer_function_call(name, args) ==
    IF name \in StringFunctions THEN StringT
    ELSE IF name \in ArrayFunctions THEN ArrayOf(Unknown)
    ELSE IF name \in NumericFunctions THEN
        IF Len(args) = 0 THEN Unknown
        ELSE LET arg_type == infer_expr(args[1])
             IN  IF is_numeric(arg_type) THEN arg_type
                 ELSE Error(<<"Expected numeric argument, got ">> \o Display(arg_type))
    ELSE IF name \in BooleanFunctions THEN Boolean
    ELSE Unknown

\* The loop of the Array arm: unify element by element from position k on,
\* stopping at the first Error.
RECURSIVE array_common(_, _, _)
array_common(elements, k, common) ==
    IF k > Len(elements) THEN common
    ELSE LET next == common_type(common, infer_expr(elements[k]))
         IN  IF is_error(next) THEN next ELSE array_common(elements, k + 1, next)

\* TypeInferenceVisitor::infer_expr (infer and visit_expr call it).
infer_expr(e) ==
    CASE e.kind = "Literal" ->
            (CASE e.lit.t = "Integer" -> Integer
               [] e.lit.t = "Float" -> Float
               [] e.lit.t = "Boolean" -> Boolean)
      [] e.kind = "Null" -> NullT
      [] e.kind = "Identifier" -> Unknown
      [] e.kind = "String" -> StringT
      [] e.kind = "FieldAccess" -> Unknown
      [] e.kind = "BinaryOp" -> infer_binary_op(e.op, e.left, e.right)
      [] e.kind = "UnaryOp" -> infer_unary_op(e.op, e.operand)
      [] e.kind = "FunctionCall" -> infer_function_call(e.name, e.args)
      [] e.kind = "Lambda" -> Unknown
      [] e.kind = "Let" -> infer_expr(e.body)
      [] e.kind = "If" ->
            common_type(infer_expr(e.then_branch), infer_expr(e.else_branch))
      [] e.kind = "Array" ->
            IF Len(e.elements) = 0 THEN ArrayOf(Unknown)
            ELSE ArrayOf(array_common(e.elements, 2, infer_expr(e.elements[1])))
      [] e.kind = "Object" -> ObjectT
      [] e.kind = "Pipe" ->
            IF Len(e.functions) = 0 THEN Unknown
            ELSE infer_expr(e.functions[Len(e.functions)])
      [] e.kind = "Alternative" ->
            common_type(infer_expr(e.primary), infer_expr(e.alternative))
      [] e.kind = "Guard" -> infer_expr(e.body)
      [] e.kind = "Date" -> DateT
      [] e.kind = "DateTime" -> DateTimeT
      [] e.kind = "Duration" -> DurationT
      [] e.kind = "TemporalKeyword" ->
            IF e.keyword = "Now" THEN DateTimeT ELSE DateT

\* TypeInferenceVisitor::infer.
infer(e) == infer_expr(e)

\* The handler methods of impl Visitor<InferredType>: the method of the
\* node's variant, called on the node's fields (visit_literal, visit_null,
\* ..., visit_temporal_keyword, visit_string).
visit_handler(e) ==
    CASE e.kind = "Literal" ->
            (CASE e.lit.t = "Integer" -> Integer
               [] e.lit.t = "Float" -> Float
               [] e.lit.t = "Boolean" -> Boolean)
      [] e.kind = "Null" -> NullT
      [] e.kind = "Identifier" -> Unknown
      [] e.kind = "FieldAccess" -> Unknown
      [] e.kind = "BinaryOp" -> infer_binary_op(e.op, e.left, e.right)
      [] e.kind = "UnaryOp" -> infer_unary_op(e.op, e.operand)
      [] e.kind = "FunctionCall" -> infer_function_call(e.name, e.args)
      [] e.kind = "Lambda" -> Unknown
      [] e.kind = "Let" -> infer_expr(e.body)
      [] e.kind = "If" ->
            common_type(infer_expr(e.then_branch), infer_expr(e.else_branch))
      [] e.kind = "Array" ->
            IF Len(e.elements) = 0 THEN ArrayOf(Unknown)
            ELSE ArrayOf(array_common(e.elements, 2, infer_expr(e.elements[1])))
      [] e.kind = "Object" -> ObjectT
      [] e.kind = "Pipe" ->
            IF Len(e.functions) = 0 THEN infer_expr(e.value)
            ELSE infer_expr(e.functions[Len(e.functions)])
      [] e.kind = "Alternative" ->
            common_type(infer_expr(e.primary), infer_expr(e.alternative))
      [] e.kind = "Guard" -> infer_expr(e.body)
      [] e.kind = "Date" -> StringT
      [] e.kind = "DateTime" -> StringT
      [] e.kind = "Duration" -> StringT
      [] e.kind = "TemporalKeyword" -> StringT
      [] e.kind = "String" -> StringT

(* Inputs of common_type: every type without a parameter, arrays of some   *)
(* of them (also nested), and errors with two messages.                    *)
PlainTypes ==
    {Integer, Float, StringT, Boolean, NullT, ObjectT, DateT, DateTimeT,
     DurationT, Unknown, Numeric}
TypeSamples ==
    PlainTypes
    \cup {ArrayOf(t) : t \in {Integer, Float, StringT, Unknown, Numeric}}
    \cup {ArrayOf(ArrayOf(Integer)), ArrayOf(ArrayOf(StringT))}
    \cup {Error(<<"m1">>), Error(<<"m2">>), ArrayOf(Error(<<"m1">>))}

TypesInit ==
    /\ t_phase = "input"
    /\ ty_a \in TypeSamples
    /\ ty_b \in TypeSamples
    /\ unified = [ab |-> Unknown, ba |-> Unknown]

\* InferredType::common_type(&a, &b) and, for the same pair,
\* InferredType::common_type(&b, &a).
CommonType ==
    /\ t_phase = "input"
    /\ t_phase' = "unified"
    /\ unified' = [ab |-> common_type(ty_a, ty_b), ba |-> common_type(ty_b, ty_a)]
    /\ UNCHANGED <<ty_a, ty_b>>

(* Inputs of infer: one leaf of every inferable type, every operator over  *)
(* every pair of leaves, calls, and each of these inside parent nodes.     *)
TypedLeaves ==
    {IntLit(1), FloatLit(FFin(2)), BoolLit(TRUE), Null, String("a"),
     Identifier("x"), FieldAccess(Identifier("user"), "age"),
     Array(<<IntLit(1)>>), Object(<<>>), Date("2024-01-15"),
     DateTime("2024-01-15T10:30:00Z"), Duration("P1D"),
     TemporalKeyword("Now"), TemporalKeyword("Today")}

InferSeeds ==
    TypedLeaves
    \cup {BinaryOp(o, l, r) : o \in BinaryOperator, l \in TypedLeaves, r \in TypedLeaves}
    \cup {UnaryOp(o, l) : o \in UnaryOperator, l \in TypedLeaves}
    \cup {FunctionCall(f, <<l>>) : f \in {"abs", "length", "all", "map", "other"},
                                   l \in TypedLeaves}
    \cup {FunctionCall("abs", <<>>), Array(<<>>), Array(<<IntLit(1), String("a")>>),
          Array(<<IntLit(1), FloatLit(FFin(2)), IntLit(3)>>),
          Pipe(IntLit(1), <<>>)}

InferParents(e) ==
    {BinaryOp("Add", e, IntLit(1)), BinaryOp("Sub", Identifier("x"), e),
     BinaryOp("Mod", e, Identifier("x")), BinaryOp("Eq", e, IntLit(2)),
     BinaryOp("And", BoolLit(TRUE), e),
     UnaryOp("Neg", e), UnaryOp("Not", e),
     FunctionCall("abs", <<e>>), FunctionCall("length", <<e>>),
     Lambda("x", e), Let("x", e, IntLit(2)), Let("x", IntLit(2), e),
     If(e, IntLit(1), IntLit(2)), If(BoolLit(TRUE), e, IntLit(2)),
     Array(<<e>>), Array(<<IntLit(1), e>>), Object(<<<<"k", e>>>>),
     FieldAccess(e, "fld"),
     Pipe(e, <<FunctionCall("trim", <<>>)>>), Pipe(Identifier("x"), <<e>>),
     Alternative(e, Identifier("x")), Guard(e, IntLit(1)), Guard(BoolLit(TRUE), e)}

InferInit ==
    /\ i_phase = "input"
    /\ i_wraps = 0
    /\ i_expr \in InferSeeds
    /\ inferred = Unknown

InferWrap ==
    /\ i_phase = "input"
    /\ i_wraps < MaxWraps
    /\ i_wraps' = i_wraps + 1
    /\ i_expr' \in InferParents(i_expr)
    /\ UNCHANGED <<i_phase, inferred>>

\* TypeInferenceVisitor::infer(&expr).
Infer ==
    /\ i_phase = "input"
    /\ i_phase' = "inferred"
    /\ inferred' = infer(i_expr)
    /\ UNCHANGED <<i_wraps, i_expr>>

----------------------------------------------------------------------------
(* Code generation (src/codegen/ast_to_code.rs, operators.rs, functions.rs,*)
(* temporal.rs).  A TokenStream is the sequence of its tokens; quote!      *)
(* concatenates the tokens it is given with the interpolated streams.      *)

\* The token of a string literal, of an i64 literal and of an f64 literal.
StrLit(s) == <<"\"" \o s \o "\"">>
IntTok(n) == <<ToString(n) \o "i64">>
FloatTok(x) == <<ToString(x.n) \o "f64">>
BoolTok(b) == IF b THEN <<"true">> ELSE <<"false">>

\* #(#items),* : the streams separated by commas.
RECURSIVE Separated(_)
Separated(items) ==
    IF Len(items) = 0 THEN <<>>
    ELSE IF Len(items) = 1 THEN items[1]
    ELSE items[1] \o <<",">> \o Separated(Tail(items))

\* CodegenVisitor::convert_binary_op.
convert_binary_op(op) ==
    CASE op = "Add" -> "Add"
      [] op = "Sub" -> "Subtract"
      [] op = "Mul" -> "Multiply"
      [] op = "Div" -> "Divide"
      [] op = "Mod" -> "Modulo"
      [] op = "Pow" -> "Multiply"
      [] op = "Eq" -> "Equal"
      [] op = "Neq" -> "NotEqual"
      [] op = "Lt" -> "Less"
      [] op = "Lte" -> "LessEqual"
      [] op = "Gt" -> "Greater"
      [] op = "Gte" -> "GreaterEqual"
      [] op = "And" -> "And"
      [] op = "Or" -> "Or"

\* CodegenVisitor::convert_unary_op.
convert_unary_op(op) ==
    CASE op = "Not" -> "Not"
      [] op = "Neg" -> "Negate"
      [] op = "Plus" -> "Negate"

\* OperatorGenerator::binary.
binary(op, left, right) ==
    CASE op = "Equal" -> left \o <<"==">> \o right
      [] op = "NotEqual" -> left \o <<"!=">> \o right
      [] op = "Less" -> left \o <<"<">> \o right
      [] op = "LessEqual" -> left \o <<"<=">> \o right
      [] op = "Greater" -> left \o <<">">> \o right
      [] op = "GreaterEqual" -> left \o <<">=">> \o right
      [] op = "Add" -> left \o <<"+">> \o right
      [] op = "Subtract" -> left \o <<"-">> \o right
      [] op = "Multiply" -> left \o <<"*">> \o right
      [] op = "Divide" -> left \o <<"/">> \o right
      [] op = "Modulo" -> left \o <<"%">> \o right
      [] op = "And" -> left \o <<"&&">> \o right
      [] op = "Or" -> left \o <<"||">> \o right

\* OperatorGenerator::unary.
unary(op, operand) ==
    CASE op = "Not" -> <<"!">> \o operand
      [] op = "Negate" -> <<"-">> \o operand

\* FunctionGenerator::string_function (the warning sign that opens the two
\* messages of "matches" is left out of the string tokens).
string_function(name, args) ==
    CASE name = "matches" ->
            IF Len(args) < 2 THEN <<>>
            ELSE <<"{", "use", "regex", "::", "Regex", ";", "match", "Regex",
                "::", "new", "(">> \o args[2] \o <<")", "{", "Ok", "(", "re",
                ")", "=>", "{", "match", "std", "::", "panic", "::",
                "catch_unwind", "(", "std", "::", "panic", "::",
                "AssertUnwindSafe", "(", "||", "{", "re", ".", "is_match",
                "(">> \o args[1] \o <<")", "}", ")", ")", "{", "Ok", "(",
                "result", ")", "=>", "result", ",", "Err", "(", "_", ")",
                "=>", "{", "eprintln", "!", "(",
                "\"Regex matching failed: pattern may cause performance issues\"",
                ")", ";", "false", "}", "}", "}", "Err", "(", "_", ")", "=>",
                "{", "eprintln", "!", "(", "\"Invalid regex pattern: {}\"",
                ",">> \o args[2] \o <<")", ";", "false", "}", "}", "}">>
      [] name = "contains" ->
            IF Len(args) < 2 THEN <<>>
            ELSE args[1] \o <<".", "contains", "(">> \o args[2] \o <<")">>
      [] name = "length" ->
            IF Len(args) < 1 THEN <<>>
            ELSE args[1] \o <<".", "len", "(", ")">>
      [] name = "uppercase" ->
            IF Len(args) < 1 THEN <<>>
            ELSE args[1] \o <<".", "to_uppercase", "(", ")">>
      [] name = "lowercase" ->
            IF Len(args) < 1 THEN <<>>
            ELSE args[1] \o <<".", "to_lowercase", "(", ")">>
      [] name = "trim" ->
            IF Len(args) < 1 THEN <<>>
            ELSE args[1] \o <<".", "trim", "(", ")">>
      [] name = "starts_with" ->
            IF Len(args) < 2 THEN <<>>
            ELSE args[1] \o <<".", "starts_with", "(">> \o args[2] \o <<")">>
      [] name = "ends_with" ->
            IF Len(args) < 2 THEN <<>>
            ELSE args[1] \o <<".", "ends_with", "(">> \o args[2] \o <<")">>
      [] OTHER -> <<>>

\* FunctionGenerator::datetime_function.
datetime_function(name, args) ==
    CASE name = "today" ->
            <<"{", "use", "chrono", "::", "Local", ";", "Local", "::",
                "now", "(", ")", ".", "date_naive", "(", ")", "}">>
      [] name = "now" ->
            <<"{", "use", "chrono", "::", "Utc", ";", "Utc", "::", "now",
                "(", ")", "}">>
      [] name = "age" ->
            IF Len(args) < 1 THEN <<>>
            ELSE <<"{", "use", "chrono", "::", "Local", ";", "let", "today",
                "=", "Local", "::", "now", "(", ")", ".", "date_naive", "(",
                ")", ";", "let", "mut", "age", "=", "today", ".", "year", "(",
                ")", "-">> \o args[1] \o <<".", "year", "(", ")", ";", "if",
                "(", "today", ".", "month", "(", ")", ",", "today", ".",
                "day", "(", ")", ")", "<", "(">> \o args[1] \o <<".", "month",
                "(", ")", ",">> \o args[1] \o <<".", "day", "(", ")", ")",
                "{", "age", "-=", "1", ";", "}", "age", "as", "u32", "}">>
      [] name = "days_since" ->
            IF Len(args) < 1 THEN <<>>
            ELSE <<"{", "use", "chrono", "::", "Local", ";", "(", "Local",
                "::", "now", "(", ")", ".", "date_naive", "(", ")", "-">> \o
                args[1] \o <<")", ".", "num_days", "(", ")", "}">>
      [] name = "date" ->
            IF Len(args) < 1 THEN <<>>
            ELSE <<"{", "use", "chrono", "::", "NaiveDate", ";", "NaiveDate",
                "::", "parse_from_str", "(">> \o args[1] \o <<",",
                "\"%Y-%m-%d\"", ")", ".", "expect", "(",
                "\"Invalid date format\"", ")", "}">>
      [] OTHER -> <<>>

\* FunctionGenerator::array_function.
array_function(name, args) ==
    CASE name = "contains" ->
            IF Len(args) < 2 THEN <<>>
            ELSE args[1] \o <<".", "contains", "(", "&">> \o args[2] \o <<")">>
      [] name = "any" ->
            IF Len(args) < 2 THEN <<>>
            ELSE args[1] \o <<".", "iter", "(", ")", ".", "any", "(", "|",
                "item", "|">> \o args[2] \o <<")">>
      [] name = "all" ->
            IF Len(args) < 2 THEN <<>>
            ELSE args[1] \o <<".", "iter", "(", ")", ".", "all", "(", "|",
                "item", "|">> \o args[2] \o <<")">>
      [] name = "length" ->
            IF Len(args) < 1 THEN <<>>
            ELSE args[1] \o <<".", "len", "(", ")">>
      [] name = "is_empty" ->
            IF Len(args) < 1 THEN <<>>
            ELSE args[1] \o <<".", "is_empty", "(", ")">>
      [] name = "is_null" ->
            IF Len(args) < 1 THEN <<>>
            ELSE args[1] \o <<".", "is_none", "(", ")">>
      [] name = "is_some" ->
            IF Len(args) < 1 THEN <<>>
            ELSE args[1] \o <<".", "is_some", "(", ")">>
      [] OTHER -> <<>>

StringFamily ==
    {"matches", "contains", "length", "uppercase", "lowercase", "trim",
     "starts_with", "ends_with"}
DateTimeFamily == {"today", "now", "age", "days_since", "date"}
ArrayFamily == {"any", "all"}

\* The names each family handler has an arm for.
string_function_names ==
    {"matches", "contains", "length", "uppercase", "lowercase", "trim",
     "starts_with", "ends_with"}
datetime_function_names == {"today", "now", "age", "days_since", "date"}
array_function_names ==
    {"contains", "any", "all", "length", "is_empty", "is_null", "is_some"}

\* FunctionGenerator::call.
call(name, args) ==
    IF name \in StringFamily THEN string_function(name, args)
    ELSE IF name \in DateTimeFamily THEN datetime_function(name, args)
    ELSE IF name \in ArrayFamily THEN array_function(name, args)
    ELSE <<>>

\* TemporalGenerator::date.
date(date_str) ==
    <<"{", "use", "chrono", "::", "NaiveDate", ";", "NaiveDate", "::",
    "parse_from_str", "(">> \o StrLit(date_str) \o <<",", "\"%Y-%m-%d\"", ")",
    ".", "expect", "(", "\"Invalid date format\"", ")", "}">>

\* TemporalGenerator::datetime.
datetime(datetime_str) ==
    <<"{", "use", "chrono", "::", "DateTime", ";", "DateTime", "::",
    "parse_from_rfc3339", "(">> \o StrLit(datetime_str) \o <<")", ".", "map",
    "(", "|", "dt", "|", "dt", ".", "with_timezone", "(", "&", "chrono", "::",
    "Utc", ")", ")", ".", "expect", "(", "\"Invalid datetime format\"", ")",
    "}">>

\* TemporalGenerator::duration.
duration(duration_str) ==
    <<"{", "use", "chrono", "::", "Duration", ";", "use", "elo_rust", "::",
    "runtime", "::", "TemporalValue", ";", "TemporalValue", "::",
    "parse_duration", "(">> \o StrLit(duration_str) \o <<")", ".", "map", "(",
    "|", "tv", "|", "match", "tv", "{", "TemporalValue", "::", "Duration",
    "(", "d", ")", "=>", "d", ",", "_", "=>", "Duration", "::", "zero", "(",
    ")", ",", "}", ")", ".", "unwrap_or_else", "(", "|", "_", "|", "Duration",
    "::", "zero", "(", ")", ")", "}">>

\* TemporalGenerator::keyword.
keyword(keyword_str) ==
    CASE keyword_str = "NOW" ->
            <<"{", "use", "chrono", "::", "Utc", ";", "Utc", "::", "now", "(",
            ")", "}">>
      [] keyword_str = "TODAY" ->
            <<"{", "use", "chrono", "::", "Local", ";", "Local", "::", "now",
            "(", ")", ".", "naive_local", "(", ")", ".", "date", "(", ")",
            "}">>
      [] keyword_str = "TOMORROW" ->
            <<"{", "use", "chrono", "::", "{", "Local", ",", "Duration", "}",
            ";", "(", "Local", "::", "now", "(", ")", ".", "naive_local", "(",
            ")", ".", "date", "(", ")", "+", "Duration", "::", "days", "(",
            "1", ")", ")", "}">>
      [] keyword_str = "YESTERDAY" ->
            <<"{", "use", "chrono", "::", "{", "Local", ",", "Duration", "}",
            ";", "(", "Local", "::", "now", "(", ")", ".", "naive_local", "(",
            ")", ".", "date", "(", ")", "-", "Duration", "::", "days", "(",
            "1", ")", ")", "}">>
      [] keyword_str = "START_OF_DAY" ->
            <<"{", "use", "chrono", "::", "Local", ";", "let", "today", "=",
            "Local", "::", "now", "(", ")", ".", "naive_local", "(", ")", ".",
            "date", "(", ")", ";", "today", ".", "and_hms_opt", "(", "0", ",",
            "0", ",", "0", ")", ".", "unwrap", "(", ")", "}">>
      [] keyword_str = "END_OF_DAY" ->
            <<"{", "use", "chrono", "::", "Local", ";", "let", "today", "=",
            "Local", "::", "now", "(", ")", ".", "naive_local", "(", ")", ".",
            "date", "(", ")", ";", "today", ".", "and_hms_opt", "(", "23",
            ",", "59", ",", "59", ")", ".", "unwrap", "(", ")", "}">>
      [] keyword_str = "START_OF_WEEK" ->
            <<"{", "use", "chrono", "::", "{", "Local", ",", "Datelike", "}",
            ";", "let", "today", "=", "Local", "::", "now", "(", ")", ".",
            "naive_local", "(", ")", ".", "date", "(", ")", ";", "let",
            "days_since_monday", "=", "today", ".", "weekday", "(", ")", ".",
            "number_from_monday", "(", ")", "-", "1", ";", "today", "-",
            "chrono", "::", "Duration", "::", "days", "(",
            "days_since_monday", "as", "i64", ")", "}">>
      [] keyword_str = "END_OF_WEEK" ->
            <<"{", "use", "chrono", "::", "{", "Local", ",", "Datelike", "}",
            ";", "let", "today", "=", "Local", "::", "now", "(", ")", ".",
            "naive_local", "(", ")", ".", "date", "(", ")", ";", "let",
            "days_until_sunday", "=", "7", "-", "today", ".", "weekday", "(",
            ")", ".", "number_from_monday", "(", ")", ";", "today", "+",
            "chrono", "::", "Duration", "::", "days", "(",
            "days_until_sunday", "as", "i64", ")", "}">>
      [] keyword_str = "START_OF_MONTH" ->
            <<"{", "use", "chrono", "::", "Local", ";", "let", "today", "=",
            "Local", "::", "now", "(", ")", ".", "naive_local", "(", ")", ".",
            "date", "(", ")", ";", "today", ".", "with_day", "(", "1", ")",
            ".", "unwrap", "(", ")", "}">>
      [] keyword_str = "END_OF_MONTH" ->
            <<"{", "use", "chrono", "::", "{", "Local", ",", "NaiveDate", "}",
            ";", "let", "today", "=", "Local", "::", "now", "(", ")", ".",
            "naive_local", "(", ")", ".", "date", "(", ")", ";", "let",
            "last_day", "=", "if", "today", ".", "month", "(", ")", "==",
            "12", "{", "NaiveDate", "::", "from_ymd_opt", "(", "today", ".",
            "year", "(", ")", "+", "1", ",", "1", ",", "1", ")", ".",
            "unwrap", "(", ")", "-", "chrono", "::", "Duration", "::", "days",
            "(", "1", ")", "}", "else", "{", "NaiveDate", "::",
            "from_ymd_opt", "(", "today", ".", "year", "(", ")", ",", "today",
            ".", "month", "(", ")", "+", "1", ",", "1", ")", ".", "unwrap",
            "(", ")", "-", "chrono", "::", "Duration", "::", "days", "(", "1",
            ")", "}", ";", "last_day", "}">>
      [] keyword_str = "START_OF_QUARTER" ->
            <<"{", "use", "chrono", "::", "Local", ";", "let", "today", "=",
            "Local", "::", "now", "(", ")", ".", "naive_local", "(", ")", ".",
            "date", "(", ")", ";", "let", "quarter", "=", "(", "today", ".",
            "month", "(", ")", "-", "1", ")", "/", "3", ";", "let", "month",
            "=", "quarter", "*", "3", "+", "1", ";", "today", ".",
            "with_month", "(", "month", ")", ".", "unwrap", "(", ")", ".",
            "with_day", "(", "1", ")", ".", "unwrap", "(", ")", "}">>
      [] keyword_str = "END_OF_QUARTER" ->
            <<"{", "use", "chrono", "::", "{", "Local", ",", "NaiveDate", "}",
            ";", "let", "today", "=", "Local", "::", "now", "(", ")", ".",
            "naive_local", "(", ")", ".", "date", "(", ")", ";", "let",
            "quarter", "=", "(", "today", ".", "month", "(", ")", "-", "1",
            ")", "/", "3", ";", "let", "next_quarter_month", "=", "(",
            "quarter", "+", "1", ")", "*", "3", "+", "1", ";", "let", "year",
            "=", "if", "next_quarter_month", ">", "12", "{", "today", ".",
            "year", "(", ")", "+", "1", "}", "else", "{", "today", ".",
            "year", "(", ")", "}", ";", "let", "month", "=", "if",
            "next_quarter_month", ">", "12", "{", "next_quarter_month", "-",
            "12", "}", "else", "{", "next_quarter_month", "}", ";",
            "NaiveDate", "::", "from_ymd_opt", "(", "year", ",", "month", ",",
            "1", ")", ".", "unwrap", "(", ")", "-", "chrono", "::",
            "Duration", "::", "days", "(", "1", ")", "}">>
      [] keyword_str = "START_OF_YEAR" ->
            <<"{", "use", "chrono", "::", "Local", ";", "let", "today", "=",
            "Local", "::", "now", "(", ")", ".", "naive_local", "(", ")", ".",
            "date", "(", ")", ";", "today", ".", "with_month", "(", "1", ")",
            ".", "unwrap", "(", ")", ".", "with_day", "(", "1", ")", ".",
            "unwrap", "(", ")", "}">>
      [] keyword_str = "END_OF_YEAR" ->
            <<"{", "use", "chrono", "::", "Local", ";", "let", "today", "=",
            "Local", "::", "now", "(", ")", ".", "naive_local", "(", ")", ".",
            "date", "(", ")", ";", "today", ".", "with_month", "(", "12", ")",
            ".", "unwrap", "(", ")", ".", "with_day", "(", "31", ")", ".",
            "unwrap", "(", ")", "}">>
      [] keyword_str = "BEGINNING_OF_TIME" ->
            <<"{", "use", "chrono", "::", "NaiveDate", ";", "NaiveDate", "::",
            "from_ymd_opt", "(", "1970", ",", "1", ",", "1", ")", ".",
            "unwrap", "(", ")", "}">>
      [] keyword_str = "END_OF_TIME" ->
            <<"{", "use", "chrono", "::", "NaiveDate", ";", "NaiveDate", "::",
            "from_ymd_opt", "(", "9999", ",", "12", ",", "31", ")", ".",
            "unwrap", "(", ")", "}">>
      [] OTHER -> <<>>

\* CodegenVisitor::visit_temporal_keyword: the name handed to
\* TemporalGenerator::keyword.
keyword_name(k) ==
    CASE k = "Now" -> "NOW"
      [] k = "Today" -> "TODAY"
      [] k = "Tomorrow" -> "TOMORROW"
      [] k = "Yesterday" -> "YESTERDAY"
      [] k = "StartOfDay" -> "START_OF_DAY"
      [] k = "EndOfDay" -> "END_OF_DAY"
      [] k = "StartOfWeek" -> "START_OF_WEEK"
      [] k = "EndOfWeek" -> "END_OF_WEEK"
      [] k = "StartOfMonth" -> "START_OF_MONTH"
      [] k = "EndOfMonth" -> "END_OF_MONTH"
      [] k = "StartOfQuarter" -> "START_OF_QUARTER"
      [] k = "EndOfQuarter" -> "END_OF_QUARTER"
      [] k = "StartOfYear" -> "START_OF_YEAR"
      [] k = "EndOfYear" -> "END_OF_YEAR"
      [] k = "BeginningOfTime" -> "BEGINNING_OF_TIME"
      [] k = "EndOfTime" -> "END_OF_TIME"

visit_temporal_keyword(k) == keyword(keyword_name(k))

\* CodegenVisitor::visit_literal.
visit_literal(lit) ==
    CASE lit.t = "Integer" -> IntTok(lit.i)
      [] lit.t = "Float" -> FloatTok(lit.f)
      [] lit.t = "Boolean" -> BoolTok(lit.b)

visit_null == <<"None", "::", "<", "(", ")", ">">>
visit_identifier(name) == <<name>>
visit_string(value) == StrLit(value)

RECURSIVE visit_expr(_)

visit_field_access(receiver, field) == visit_expr(receiver) \o <<".", field>>

visit_binary_op(op, left, right) ==
    LET l == visit_expr(left)
        r == visit_expr(right)
        codegen_op == convert_binary_op(op)
    IN  binary(codegen_op, l, r)

visit_unary_op(op, operand) ==
    unary(convert_unary_op(op), visit_expr(operand))

visit_function_call(name, args) ==
    LET arg_tokens == MapSeq(args, visit_expr)
    IN  call(name, arg_tokens)

visit_lambda(param, body) ==
    <<"|", param, "|", "{">> \o visit_expr(body) \o <<"}">>

visit_let(name, value, body) ==
    <<"{", "let", name, "=">> \o visit_expr(value) \o <<";">>
    \o visit_expr(body) \o <<"}">>

visit_if(condition, then_branch, else_branch) ==
    <<"if">> \o visit_expr(condition) \o <<"{">> \o visit_expr(then_branch)
    \o <<"}", "else", "{">> \o visit_expr(else_branch) \o <<"}">>

visit_array(elements) ==
    <<"vec", "!", "[">> \o Separated(MapSeq(elements, visit_expr)) \o <<"]">>

object_pair(field) ==
    <<"(">> \o StrLit(field[1]) \o <<",">> \o visit_expr(field[2]) \o <<")">>
visit_object(fields) ==
    <<"vec", "!", "[">> \o Separated(MapSeq(fields, object_pair)) \o <<"]">>

\* A step that hands the piped value over as the last argument, which the
\* code does not do.
pipe_step_last(result, func) ==
    IF func.kind = "FunctionCall" THEN
        call(func.name, MapSeq(func.args, visit_expr) \o <<result>>)
    ELSE IF func.kind = "Identifier" THEN call(func.name, <<result>>)
    ELSE visit_expr(func)

\* One iteration of visit_pipe's loop: the step func applied to result.
pipe_step(result, func) ==
    IF func.kind = "FunctionCall" THEN
        LET new_args == <<result>> \o MapSeq(func.args, visit_expr)
        IN  call(func.name, new_args)
    ELSE IF func.kind = "Identifier" THEN call(func.name, <<result>>)
    ELSE visit_expr(func)

\* The loop of visit_pipe from step k on.
RECURSIVE pipe_loop(_, _, _)
pipe_loop(result, functions, k) ==
    IF k > Len(functions) THEN result
    ELSE pipe_loop(pipe_step(result, functions[k]), functions, k + 1)

visit_pipe(value, functions) == pipe_loop(visit_expr(value), functions, 1)

visit_alternative(primary, alternative) ==
    visit_expr(primary) \o <<".", "or_else", "(", "||">>
    \o visit_expr(alternative) \o <<")">>

visit_guard(condition, body) ==
    <<"if">> \o visit_expr(condition) \o <<"{">> \o visit_expr(body)
    \o <<"}", "else", "{", "panic", "!", "(", "\"Guard failed\"", ")", "}">>

visit_date(s) == date(s)
visit_datetime(s) == datetime(s)
visit_duration(s) == duration(s)

\* CodegenVisitor::visit_expr.
visit_expr(e) ==
    CASE e.kind = "Literal" -> visit_literal(e.lit)
      [] e.kind = "Null" -> visit_null
      [] e.kind = "Identifier" -> visit_identifier(e.name)
      [] e.kind = "String" -> visit_string(e.text)
      [] e.kind = "FieldAccess" -> visit_field_access(e.receiver, e.field)
      [] e.kind = "BinaryOp" -> visit_binary_op(e.op, e.left, e.right)
      [] e.kind = "UnaryOp" -> visit_unary_op(e.op, e.operand)
      [] e.kind = "FunctionCall" -> visit_function_call(e.name, e.args)
      [] e.kind = "Lambda" -> visit_lambda(e.param, e.body)
      [] e.kind = "Let" -> visit_let(e.name, e.value, e.body)
      [] e.kind = "If" -> visit_if(e.condition, e.then_branch, e.else_branch)
      [] e.kind = "Array" -> visit_array(e.elements)
      [] e.kind = "Object" -> visit_object(e.fields)
      [] e.kind = "Pipe" -> visit_pipe(e.value, e.functions)
      [] e.kind = "Alternative" -> visit_alternative(e.primary, e.alternative)
      [] e.kind = "Guard" -> visit_guard(e.condition, e.body)
      [] e.kind = "Date" -> visit_date(e.text)
      [] e.kind = "DateTime" -> visit_datetime(e.text)
      [] e.kind = "Duration" -> visit_duration(e.text)
      [] e.kind = "TemporalKeyword" -> visit_temporal_keyword(e.keyword)

(* Inputs of the code generator: pairs of expressions whose fragments are  *)
(* compared.  An operator pair is the same operands under two operators;   *)
(* a pipe pair is a pipe and the call it stands for.                       *)
CodegenOperands ==
    {IntLit(2), Identifier("x"), FieldAccess(Identifier("user"), "age"),
     UnaryOp("Neg", IntLit(3))}

\* The direct-call form of a pipe: each step applied to what precedes it.
RECURSIVE DirectCall(_)
RECURSIVE DirectSteps(_, _, _)
DirectSteps(acc, functions, k) ==
    IF k > Len(functions) THEN acc
    ELSE LET func == functions[k]
             applied == IF func.kind = "FunctionCall"
                        THEN FunctionCall(func.name, <<acc>> \o func.args)
                        ELSE FunctionCall(func.name, <<acc>>)
         IN  DirectSteps(applied, functions, k + 1)
DirectCall(e) ==
    IF e.kind = "Pipe" THEN DirectSteps(DirectCall(e.value), e.functions, 1)
    ELSE e

PipeValues ==
    {Identifier("email"), String("a"), FieldAccess(Identifier("user"), "name"),
     Array(<<IntLit(1), IntLit(2)>>), FunctionCall("trim", <<Identifier("s")>>)}
PipeArgs == {<<>>, <<String("a")>>, <<Identifier("p"), IntLit(1)>>}
PipeNames ==
    {"lowercase", "trim", "contains", "matches", "starts_with", "length",
     "age", "date", "today", "any", "all", "is_empty", "is_null", "is_some",
     "custom"}
PipeSteps ==
    {FunctionCall(f, as) : f \in PipeNames, as \in PipeArgs}
    \cup {Identifier(g) : g \in {"trim", "uppercase", "now", "custom"}}
Pipes ==
    {Pipe(v, <<s>>) : v \in PipeValues, s \in PipeSteps}
    \cup {Pipe(Pipe(v, <<FunctionCall("lowercase", <<>>)>>), <<s>>) :
            v \in PipeValues, s \in PipeSteps}
    \cup {Pipe(v, <<FunctionCall("lowercase", <<>>), s>>) :
            v \in PipeValues, s \in PipeSteps}
    \cup {parse(ChainSource).expr}

CodegenPairs ==
    {<<BinaryOp(o1, l, r), BinaryOp(o2, l, r)>> :
        o1 \in BinaryOperator, o2 \in BinaryOperator,
        l \in CodegenOperands, r \in CodegenOperands}
    \cup {<<UnaryOp(o1, x), UnaryOp(o2, x)>> :
            o1 \in UnaryOperator, o2 \in UnaryOperator, x \in CodegenOperands}
    \cup {<<p, DirectCall(p)>> : p \in Pipes}
    \cup {<<e, e>> : e \in OtherLeaves \cup {FloatLit(FFin(2)), BoolLit(TRUE)}
                         \cup InferParents(Identifier("y"))
                         \cup {TemporalKeyword(k) : k \in TemporalKeywords}}

CodegenInit ==
    /\ c_phase = "input"
    /\ \E pair \in CodegenPairs : c_expr = pair[1] /\ c_other = pair[2]
    /\ fragment = <<>>
    /\ other_fragment = <<>>

\* CodegenVisitor::visit_expr(&c_expr).
Generate ==
    /\ c_phase = "input"
    /\ c_phase' = "generated"
    /\ fragment' = visit_expr(c_expr)
    /\ UNCHANGED <<c_expr, c_other, other_fragment>>

\* CodegenVisitor::visit_expr(&c_other).
GenerateOther ==
    /\ c_phase = "generated"
    /\ c_phase' = "compared"
    /\ other_fragment' = visit_expr(c_other)
    /\ UNCHANGED <<c_expr, c_other, fragment>>

----------------------------------------------------------------------------
(* Input validation (src/security.rs): validate_expression.                *)

MAX_EXPRESSION_LENGTH == 10000
MaxExprLen == 4

ValidOk == [ok |-> TRUE, error |-> ""]
ValidErr(message) == [ok |-> FALSE, error |-> message]

\* The state of the scan of count_balanced_with_string_awareness before the
\* first character.
ScanStart ==
    [in_string |-> FALSE, string_delimiter |-> " ", escape_next |-> FALSE,
     open_count |-> 0, close_count |-> 0]

\* One iteration of the loop of count_balanced_with_string_awareness.
scan_char(st, ch, open_char, close_char) ==
    IF st.escape_next THEN [st EXCEPT !.escape_next = FALSE]
    ELSE IF ch = "\\" THEN [st EXCEPT !.escape_next = TRUE]
    ELSE IF ch \in {"\"", "'"} THEN
        IF st.in_string /\ ch = st.string_delimiter
        THEN [st EXCEPT !.in_string = FALSE]
        ELSE IF ~st.in_string
        THEN [st EXCEPT !.in_string = TRUE, !.string_delimiter = ch]
        ELSE st
    ELSE IF ~st.in_string /\ ch = open_char
    THEN [st EXCEPT !.open_count = @ + 1]
    ELSE IF ~st.in_string /\ ch = close_char
    THEN [st EXCEPT !.close_count = @ + 1]
    ELSE st

RECURSIVE scan_from(_, _, _, _, _)
scan_from(text, k, st, open_char, close_char) ==
    IF k > Len(text) THEN st
    ELSE scan_from(text, k + 1, scan_char(st, text[k], open_char, close_char),
                   open_char, close_char)

\* count_balanced_with_string_awareness: (open_count, close_count).
count_balanced_with_string_awareness(text, open_char, close_char) ==
    <<scan_from(text, 1, ScanStart, open_char, close_char).open_count,
      scan_from(text, 1, ScanStart, open_char, close_char).close_count>>

dangerous_patterns ==
    <<<<"D", "R", "O", "P">>, <<"D", "E", "L", "E", "T", "E">>,
      <<"I", "N", "S", "E", "R", "T">>, <<"U", "P", "D", "A", "T", "E">>,
      <<"E", "X", "E", "C">>, <<"E", "X", "E", "C", "U", "T", "E">>,
      <<"S", "Y", "S", "T", "E", "M">>, <<"B", "A", "S", "H">>, <<"S", "H">>,
      <<"C", "M", "D", ".", "E", "X", "E">>>>
PatternText ==
    <<"DROP", "DELETE", "INSERT", "UPDATE", "EXEC", "EXECUTE", "SYSTEM",
      "BASH", "SH", "CMD.EXE">>

LowerCase ==
    <<"a", "b", "c", "d", "e", "f", "g", "h", "i", "j", "k", "l", "m", "n",
      "o", "p", "q", "r", "s", "t", "u", "v", "w", "x", "y", "z">>
UpperCase ==
    <<"A", "B", "C", "D", "E", "F", "G", "H", "I", "J", "K", "L", "M", "N",
      "O", "P", "Q", "R", "S", "T", "U", "V", "W", "X", "Y", "Z">>

\* str::to_uppercase on the characters of the model.
char_to_uppercase(ch) ==
    IF \E i \in 1..Len(LowerCase) : LowerCase[i] = ch
    THEN UpperCase[CHOOSE i \in 1..Len(LowerCase) : LowerCase[i] = ch]
    ELSE ch
to_uppercase(text) == [k \in 1..Len(text) |-> char_to_uppercase(text[k])]

\* str::contains.
contains(text, pattern) ==
    \E k \in 0..(Len(text) - Len(pattern)) :
        \A j \in 1..Len(pattern) : text[k + j] = pattern[j]

\* The characters validate_expression lets through besides letters,
\* digits and whitespace.
AllowedPunctuation ==
    {".", "_", "@", "(", ")", "[", "]", "{", "}", "=", "<", ">", "!", "&",
     "|", "+", "-", "*", "/", "%", "^", "~", "?", "\"", "'", ":", ",", ";"}
allowed_char(c) ==
    is_alphanumeric(c) \/ is_whitespace(c) \/ c \in AllowedPunctuation

\* str::trim().is_empty().
trim_is_empty(text) == \A k \in 1..Len(text) : is_whitespace(text[k])

\* The first dangerous pattern the upper-cased text contains, 0 if none.
first_dangerous(text) ==
    IF \E i \in 1..Len(dangerous_patterns) :
           contains(to_uppercase(text), dangerous_patterns[i])
    THEN CHOOSE i \in 1..Len(dangerous_patterns) :
           /\ contains(to_uppercase(text), dangerous_patterns[i])
           /\ \A j \in 1..(i - 1) :
                  ~contains(to_uppercase(text), dangerous_patterns[j])
    ELSE 0

\* The two balance checks of validate_expression, given the two counts.
balance_checks(text, parens, brackets) ==
    IF parens[1] # parens[2]
    THEN ValidErr("Unbalanced parentheses: " \o ToString(parens[1])
                  \o " open, " \o ToString(parens[2]) \o " close")
    ELSE IF brackets[1] # brackets[2]
    THEN ValidErr("Unbalanced brackets: " \o ToString(brackets[1])
                  \o " open, " \o ToString(brackets[2]) \o " close")
    ELSE IF first_dangerous(text) # 0
    THEN ValidErr("Expression contains dangerous keyword: "
                  \o PatternText[first_dangerous(text)])
    ELSE IF \E k \in 1..Len(text) : ~allowed_char(text[k])
    THEN ValidErr("Expression contains invalid characters. Only alphanumeric, operators, and quotes allowed.")
    ELSE ValidOk

\* validate_expression.
validate_expression(text) ==
    IF trim_is_empty(text) THEN ValidErr("Expression cannot be empty")
    ELSE IF Len(text) > MAX_EXPRESSION_LENGTH
    THEN ValidErr("Expression too long (max " \o ToString(MAX_EXPRESSION_LENGTH)
                  \o " characters, got " \o ToString(Len(text)) \o ")")
    ELSE balance_checks(text,
             count_balanced_with_string_awareness(text, "(", ")"),
             count_balanced_with_string_awareness(text, "[", "]"))

\* The characters the inputs of validate_expression are made of: both pairs
\* of delimiters, both quotes, the escape, the letters of a dangerous
\* pattern, whitespace and a character outside the allowed set.
ExprChars == {"(", ")", "[", "]", "'", "\"", "\\", "s", "h", " ", "#"}

ValidateIdle ==
    /\ v_phase = "idle"
    /\ v_input = <<>>
    /\ v_result = ValidOk

ValidateInit ==
    /\ v_phase = "input"
    /\ \E n \in 0..MaxExprLen : v_input \in [1..n -> ExprChars]
    /\ v_result = ValidOk

\* validate_expression(&v_input).
Validate ==
    /\ v_phase = "input"
    /\ v_phase' = "validated"
    /\ v_result' = validate_expression(v_input)
    /\ UNCHANGED v_input

----------------------------------------------------------------------------
(* Lexer::tokenize step by step: one next_token call per step, on every    *)
(* short text over an alphabet that holds the quote, the escape, the       *)
(* letters of a keyword, the underscore, a digit, the dot, whitespace and  *)
(* `|`.                                                                    *)

MaxSrcLen == 4
LexChars == {"'", "\\", "n", "i", "_", "9", ".", " ", "\n", "|"}

LexIdle ==
    /\ l_phase = "idle"
    /\ l_src = <<>>
    /\ l_lexer = Lexer_new
    /\ l_tokens = <<>>
    /\ l_result = NotLexed

\* Lexer::new(l_src) and the empty vector of tokenize.
LexInit ==
    /\ l_phase = "lexing"
    /\ \E n \in 0..MaxSrcLen : l_src \in [1..n -> LexChars]
    /\ l_lexer = Lexer_new
    /\ l_tokens = <<>>
    /\ l_result = NotLexed

\* An iteration that ends the loop on Eof without pushing it.
push_token_without_eof(step) ==
    /\ l_lexer' = step.lexer
    /\ IF ~step.ok
       THEN /\ l_phase' = "failed"
            /\ l_tokens' = l_tokens
            /\ l_result' = [ok |-> FALSE, tokens |-> <<>>, error |-> step.error]
       ELSE IF step.token = Eof
       THEN /\ l_phase' = "done"
            /\ l_tokens' = l_tokens
            /\ l_result' = [ok |-> TRUE, tokens |-> l_tokens, error |-> NoError]
       ELSE /\ l_phase' = "lexing"
            /\ l_tokens' = Append(l_tokens, step.token)
            /\ l_result' = l_result

\* What an iteration of the loop of tokenize makes of a next_token result:
\* `?` returns the error, a token is pushed, and Eof ends the loop.
push_token(step) ==
    /\ l_lexer' = step.lexer
    /\ IF ~step.ok
       THEN /\ l_phase' = "failed"
            /\ l_tokens' = l_tokens
            /\ l_result' = [ok |-> FALSE, tokens |-> <<>>, error |-> step.error]
       ELSE /\ l_tokens' = Append(l_tokens, step.token)
            /\ IF step.token = Eof
               THEN /\ l_phase' = "done"
                    /\ l_result' = [ok |-> TRUE, tokens |-> l_tokens',
                                    error |-> NoError]
               ELSE /\ l_phase' = "lexing"
                    /\ l_result' = l_result

\* An iteration whose next_token leaves the lexer where it was.
NextToken_in_place ==
    /\ l_phase = "lexing"
    /\ push_token([next_token(l_src, l_lexer) EXCEPT !.lexer = l_lexer])
    /\ UNCHANGED l_src

\* One iteration of the loop of Lexer::tokenize.
NextToken ==
    /\ l_phase = "lexing"
    /\ push_token(next_token(l_src, l_lexer))
    /\ UNCHANGED l_src

\* Parser::parse run in steps, on the texts of at most MaxStepLen characters
\* of names, digits, operators, brackets and quotes, and on texts that take
\* the parser through its loops: a pipe, a field chain, an argument list, an
\* array, an object, and an argument list that is never closed.
MaxStepLen == 3
StepChars == {"n", "9", "+", "!", "(", ")", "'"}
LoopSources ==
    {<<"n", "|", ">", "f", "(", ")", "|", ">", "f", "(", ")">>,
     <<"n", ".", "i", ".", "i">>,
     <<"f", "(", "n", ",", "9", ",", "n", ")">>,
     <<"[", "n", ",", "9", "]">>,
     <<"{", "n", ":", "9", ",", "i", ":", "9", "}">>,
     <<"n", "+", "9", "*", "n", "+", "9">>,
     <<"f", "(", "n", ",", "9", ",">>}
StepsInit ==
    /\ l_phase = "lexing"
    /\ \/ \E n \in 0..MaxStepLen : l_src \in [1..n -> StepChars]
       \/ l_src \in LoopSources
    /\ l_lexer = Lexer_new
    /\ l_tokens = <<>>
    /\ l_result = NotLexed

\* Parser::parse after tokenize has returned: the lexer's error mapped to a
\* ParseError, or Parser::new(tokens).parse_expression().
ParseLexed ==
    /\ l_phase \in {"done", "failed"}
    /\ p_phase = "idle"
    /\ p_phase' = "parsed"
    /\ input' = l_src
    /\ tokens' = l_result
    /\ parsed' = parse_tokens(l_result)
    /\ UNCHANGED <<form, lvars>>

----------------------------------------------------------------------------
(* The runtime's temporal values (src/runtime/temporal.rs).  A             *)
(* TemporalValue is kept by its variant; the day, instant or length it     *)
(* holds has no part in which variant an operation returns.                *)

TemporalValue(variant) == [variant |-> variant]
TemporalOk(value) == [ok |-> TRUE, value |-> value, error |-> ""]
TemporalErr(message) ==
    [ok |-> FALSE, value |-> TemporalValue("None"), error |-> message]

\* TemporalValue::add_duration.
add_duration(self, dur) ==
    IF dur.variant # "Duration"
    THEN TemporalErr("Can only add Duration to temporal values")
    ELSE CASE self.variant = "Date" -> TemporalOk(TemporalValue("DateTime"))
           [] self.variant = "DateTime" -> TemporalOk(TemporalValue("DateTime"))
           [] self.variant = "Duration" -> TemporalOk(TemporalValue("Duration"))

\* TemporalValue::subtract_duration.
subtract_duration(self, dur) ==
    IF dur.variant # "Duration"
    THEN TemporalErr("Can only subtract Duration from temporal values")
    ELSE CASE self.variant = "Date" -> TemporalOk(TemporalValue("DateTime"))
           [] self.variant = "DateTime" -> TemporalOk(TemporalValue("DateTime"))
           [] self.variant = "Duration" -> TemporalOk(TemporalValue("Duration"))

\* The value a temporal leaf stands for at run time: parse_date,
\* parse_datetime and parse_duration on the literals, today() and now() on
\* the keywords.
temporal_value(e) ==
    CASE e.kind = "Date" -> TemporalValue("Date")
      [] e.kind = "DateTime" -> TemporalValue("DateTime")
      [] e.kind = "Duration" -> TemporalValue("Duration")
      [] e.kind = "TemporalKeyword" /\ e.keyword = "Now" -> TemporalValue("DateTime")
      [] e.kind = "TemporalKeyword" /\ e.keyword = "Today" -> TemporalValue("Date")

----------------------------------------------------------------------------
(* Specifications: one per pass; the other passes stay idle.               *)

ParseIdle ==
    /\ p_phase = "idle"
    /\ form = [kind |-> "text", text |-> <<>>]
    /\ input = <<>>
    /\ tokens = NotLexed
    /\ parsed = NotParsed

TypesIdle ==
    /\ t_phase = "idle"
    /\ ty_a = Unknown
    /\ ty_b = Unknown
    /\ unified = [ab |-> Unknown, ba |-> Unknown]

InferIdle ==
    /\ i_phase = "idle"
    /\ i_wraps = 0
    /\ i_expr = Null
    /\ inferred = Unknown

CodegenIdle ==
    /\ c_phase = "idle"
    /\ c_expr = Null
    /\ c_other = Null
    /\ fragment = <<>>
    /\ other_fragment = <<>>

InitParse == ParseInit /\ OptIdle /\ TypesIdle /\ InferIdle /\ CodegenIdle
    /\ ValidateIdle /\ LexIdle
NextParse ==
    \/ Tokenize /\ UNCHANGED <<ovars, tvars, ivars, cvars, svars, lvars>>
    \/ Parse /\ UNCHANGED <<ovars, tvars, ivars, cvars, svars, lvars>>
SpecParse == InitParse /\ [][NextParse]_vars

InitFold == OptInit /\ ParseIdle /\ TypesIdle /\ InferIdle /\ CodegenIdle
    /\ ValidateIdle /\ LexIdle
NextFold ==
    \/ OptWrap /\ UNCHANGED <<pvars, tvars, ivars, cvars, svars, lvars>>
    \/ Optimize /\ UNCHANGED <<pvars, tvars, ivars, cvars, svars, lvars>>
    \/ OptimizeAgain /\ UNCHANGED <<pvars, tvars, ivars, cvars, svars, lvars>>
SpecFold == InitFold /\ [][NextFold]_vars

InitTypes == TypesInit /\ ParseIdle /\ OptIdle /\ InferIdle /\ CodegenIdle
    /\ ValidateIdle /\ LexIdle
NextTypes == CommonType /\ UNCHANGED <<pvars, ovars, ivars, cvars, svars, lvars>>
SpecTypes == InitTypes /\ [][NextTypes]_vars

InitCodegen == CodegenInit /\ ParseIdle /\ OptIdle /\ TypesIdle /\ InferIdle
    /\ ValidateIdle /\ LexIdle
NextCodegen ==
    \/ Generate /\ UNCHANGED <<pvars, ovars, tvars, ivars, svars, lvars>>
    \/ GenerateOther /\ UNCHANGED <<pvars, ovars, tvars, ivars, svars, lvars>>
SpecCodegen == InitCodegen /\ [][NextCodegen]_vars

InitInfer == InferInit /\ ParseIdle /\ OptIdle /\ TypesIdle /\ CodegenIdle
    /\ ValidateIdle /\ LexIdle
NextInfer ==
    \/ InferWrap /\ UNCHANGED <<pvars, ovars, tvars, cvars, svars, lvars>>
    \/ Infer /\ UNCHANGED <<pvars, ovars, tvars, cvars, svars, lvars>>
SpecInfer == InitInfer /\ [][NextInfer]_vars

InitValidate ==
    ValidateInit /\ ParseIdle /\ OptIdle /\ TypesIdle /\ InferIdle
    /\ CodegenIdle /\ LexIdle
NextValidate ==
    Validate /\ UNCHANGED <<pvars, ovars, tvars, ivars, cvars, lvars>>
SpecValidate == InitValidate /\ [][NextValidate]_vars

InitLex ==
    LexInit /\ ParseIdle /\ OptIdle /\ TypesIdle /\ InferIdle /\ CodegenIdle
    /\ ValidateIdle
NextLex ==
    NextToken /\ UNCHANGED <<pvars, ovars, tvars, ivars, cvars, svars>>
SpecLex == InitLex /\ [][NextLex]_vars

\* Parser::parse in steps; a call that has started keeps running.
InitSteps ==
    StepsInit /\ ParseIdle /\ OptIdle /\ TypesIdle /\ InferIdle /\ CodegenIdle
    /\ ValidateIdle
NextSteps ==
    \/ NextToken /\ UNCHANGED <<pvars, ovars, tvars, ivars, cvars, svars>>
    \/ ParseLexed /\ UNCHANGED <<ovars, tvars, ivars, cvars, svars>>
SpecParseSteps == InitSteps /\ [][NextSteps]_vars /\ WF_vars(NextSteps)

----------------------------------------------------------------------------
(* Claims about the parser.                                                *)

\* The documented precedence tiers, lowest first.
Tier(op) ==
    CASE op = "Or" -> 1
      [] op = "And" -> 2
      [] op \in {"Eq", "Neq"} -> 3
      [] op \in {"Lt", "Lte", "Gt", "Gte"} -> 4
      [] op \in {"Add", "Sub"} -> 5
      [] op \in {"Mul", "Div", "Mod"} -> 6
      [] op = "Pow" -> 7

ChainParsed == p_phase = "parsed" /\ form.kind = "chain"
LeftNested(f) == BinaryOp(f.op2.op, BinaryOp(f.op1.op, f.a.expr, f.b.expr), f.c.expr)
RightNested(f) == BinaryOp(f.op1.op, f.a.expr, BinaryOp(f.op2.op, f.b.expr, f.c.expr))

\* C1: for `a OP1 b OP2 c` with OP1 and OP2 from different precedence tiers,
\* parse returns the tree whose root is the lower-precedence operator and
\* whose child is the higher-precedence operator with its two adjacent
\* operands.
C1_PrecedenceShape ==
    (ChainParsed /\ Tier(form.op1.op) # Tier(form.op2.op)) =>
        /\ parsed.ok
        /\ parsed.expr = IF Tier(form.op1.op) < Tier(form.op2.op)
                         THEN RightNested(form) ELSE LeftNested(form)

\* C1 witness: `7 + a * n_1` parsed with `*` as the right child of `+`.
C1_Witness ==
    /\ ChainParsed
    /\ form.op1.op = "Add" /\ form.op2.op = "Mul"
    /\ parsed.ok
    /\ parsed.expr.op = "Add"
    /\ parsed.expr.left = IntLit(7)
    /\ parsed.expr.right = BinaryOp("Mul", Identifier("a"), Identifier("n_1"))

\* C2: power is the only right-associative level: `a ^ b ^ c` parses to
\* Pow(a, Pow(b, c)), and a chain of two operators of any other one level
\* parses left-nested.
C2_Associativity ==
    (ChainParsed /\ Tier(form.op1.op) = Tier(form.op2.op)) =>
        /\ parsed.ok
        /\ parsed.expr = IF form.op1.op = "Pow"
                         THEN RightNested(form) ELSE LeftNested(form)

\* C2 witness: `a ^ 7 ^ 127` parsed as Pow(a, Pow(7, 127)).
C2_Witness ==
    /\ ChainParsed
    /\ parsed.ok
    /\ parsed.expr = BinaryOp("Pow", Identifier("a"),
                              BinaryOp("Pow", IntLit(7), IntLit(127)))

----------------------------------------------------------------------------
(* Claims about the optimizer.                                             *)

\* The value of a tree of integer and boolean literals, computed directly in
\* the arithmetic of i64 and bool: ok is FALSE when an operator is applied to
\* operands of a kind it is not defined for, when a sub-operation leaves the
\* integer range, divides by zero or takes an exponent outside
\* 0..MaxFoldExponent.
NoValue == [ok |-> FALSE, lit |-> LitBoolean(FALSE)]
Value(l) == [ok |-> TRUE, lit |-> l]
IntValue(n) == IF InRange(n) THEN Value(LitInteger(n)) ELSE NoValue

RECURSIVE PowValue(_, _)
PowValue(l, e) ==
    IF e = 0 THEN Value(LitInteger(1))
    ELSE LET rest == PowValue(l, e - 1)
         IN  IF rest.ok THEN IntValue(rest.lit.i * l) ELSE NoValue

EvalBinary(op, a, b) ==
    IF a.t = "Integer" /\ b.t = "Integer" THEN
        LET l == a.i
            r == b.i
        IN  CASE op = "Add" -> IntValue(l + r)
              [] op = "Sub" -> IntValue(l - r)
              [] op = "Mul" -> IntValue(l * r)
              [] op = "Div" -> IF r = 0 THEN NoValue ELSE IntValue(TruncDiv(l, r))
              [] op = "Mod" ->
                    IF r = 0 \/ (l = MinInt /\ r = -1) THEN NoValue
                    ELSE IntValue(l - r * TruncDiv(l, r))
              [] op = "Pow" ->
                    IF r \in 0..MaxFoldExponent THEN PowValue(l, r) ELSE NoValue
              [] op = "Eq" -> Value(LitBoolean(l = r))
              [] op = "Neq" -> Value(LitBoolean(~(l = r)))
              [] op = "Lt" -> Value(LitBoolean(l < r))
              [] op = "Lte" -> Value(LitBoolean(~(r < l)))
              [] op = "Gt" -> Value(LitBoolean(r < l))
              [] op = "Gte" -> Value(LitBoolean(~(l < r)))
              [] OTHER -> NoValue
    ELSE IF a.t = "Boolean" /\ b.t = "Boolean" THEN
        CASE op = "And" -> Value(LitBoolean(IF a.b THEN b.b ELSE FALSE))
          [] op = "Or" -> Value(LitBoolean(IF a.b THEN TRUE ELSE b.b))
          [] op = "Eq" -> Value(LitBoolean(a.b <=> b.b))
          [] op = "Neq" -> Value(LitBoolean(~(a.b <=> b.b)))
          [] OTHER -> NoValue
    ELSE NoValue

EvalUnary(op, a) ==
    CASE op = "Not" /\ a.t = "Boolean" -> Value(LitBoolean(~a.b))
      [] op = "Neg" /\ a.t = "Integer" -> IntValue(0 - a.i)
      [] op = "Plus" /\ a.t = "Integer" -> Value(a)
      [] OTHER -> NoValue

RECURSIVE Eval(_)
Eval(e) ==
    CASE e.kind = "Literal" -> IF e.lit.t = "Float" THEN NoValue ELSE Value(e.lit)
      [] e.kind = "BinaryOp" ->
            LET a == Eval(e.left)
                b == Eval(e.right)
            IN  IF a.ok /\ b.ok THEN EvalBinary(e.op, a.lit, b.lit) ELSE NoValue
      [] e.kind = "UnaryOp" ->
            LET a == Eval(e.operand)
            IN  IF a.ok THEN EvalUnary(e.op, a.lit) ELSE NoValue
      [] OTHER -> NoValue

OptFolded == o_phase \in {"folded", "refolded"}

\* C3: folding never changes semantics.  Whenever the input is a tree of
\* integer and boolean literals under unary and binary operators whose
\* operands have the kind the operator takes, and no sub-operation overflows,
\* divides by zero or uses an exponent outside 0..31, fold_constants returns
\* the single Literal that evaluating the tree gives.
C3_FoldEqualsEvaluation ==
    (OptFolded /\ Eval(expr).ok) => folded = Literal(Eval(expr).lit)

\* C3 witness: 2 * 3 + 4 has been folded to Literal(Integer(10)).
C3_Witness ==
    /\ o_phase = "folded"
    /\ expr = BinaryOp("Add", BinaryOp("Mul", IntLit(2), IntLit(3)), IntLit(4))
    /\ folded = IntLit(10)

\* The cases of C4: one arithmetic operation on integer literals.
IsIntLit(e) == e.kind = "Literal" /\ e.lit.t = "Integer"
IntBinary(e) == e.kind = "BinaryOp" /\ IsIntLit(e.left) /\ IsIntLit(e.right)
IntNegation(e) == e.kind = "UnaryOp" /\ e.op = "Neg" /\ IsIntLit(e.operand)

\* The exact result of the operation, where it has one (l ^ r is compared
\* through PowValue, which stops at the range).
Overflows(e) ==
    IF IntNegation(e) THEN ~InRange(0 - e.operand.lit.i)
    ELSE LET l == e.left.lit.i
             r == e.right.lit.i
         IN  CASE e.op = "Add" -> ~InRange(l + r)
               [] e.op = "Sub" -> ~InRange(l - r)
               [] e.op = "Mul" -> ~InRange(l * r)
               [] e.op \in {"Div", "Mod"} -> l = MinInt /\ r = -1
               [] e.op = "Pow" -> r \in 0..MaxFoldExponent /\ ~PowValue(l, r).ok
               [] OTHER -> FALSE

\* C4: integer folding is overflow-checked for every arithmetic operation.
\* For every binary operator on two integer literals and for unary minus on
\* an integer literal, fold_constants returns (no abort), and when the
\* operation overflows the node comes back unfolded, not a wrapped value.
C4_IntegerFoldingIsChecked ==
    (OptFolded /\ (IntBinary(expr) \/ IntNegation(expr))) =>
        /\ ~IsPanic(folded)
        /\ Overflows(expr) => folded = expr

----------------------------------------------------------------------------
(* Claims about type unification.                                          *)

\* C5: common_type is commutative: for all InferredType values a and b
\* (Numeric, Unknown, Array(_) and Error(_) included),
\* common_type(a, b) = common_type(b, a).
C5_CommonTypeCommutative ==
    t_phase = "unified" => unified.ab = unified.ba

\* C6: Unknown is the identity of unification: for every InferredType t,
\* common_type(Unknown, t) = t and common_type(t, Unknown) = t.
C6_UnknownIsIdentity ==
    (t_phase = "unified" /\ ty_a = Unknown) =>
        (unified.ab = ty_b /\ unified.ba = ty_b)

----------------------------------------------------------------------------
(* Claims about type inference.                                            *)

RECURSIVE SubExprs(_)
Range(s) == {s[k] : k \in 1..Len(s)}
Children(e) ==
    CASE e.kind = "BinaryOp" -> {e.left, e.right}
      [] e.kind = "UnaryOp" -> {e.operand}
      [] e.kind = "FieldAccess" -> {e.receiver}
      [] e.kind = "FunctionCall" -> Range(e.args)
      [] e.kind = "Lambda" -> {e.body}
      [] e.kind = "Let" -> {e.value, e.body}
      [] e.kind = "If" -> {e.condition, e.then_branch, e.else_branch}
      [] e.kind = "Array" -> Range(e.elements)
      [] e.kind = "Object" -> {f[2] : f \in Range(e.fields)}
      [] e.kind = "Pipe" -> {e.value} \cup Range(e.functions)
      [] e.kind = "Alternative" -> {e.primary, e.alternative}
      [] e.kind = "Guard" -> {e.condition, e.body}
      [] OTHER -> {}
SubExprs(e) == {e} \cup UNION {SubExprs(c) : c \in Children(e)}

\* A sub-expression infers to Error, or the unification of an array's
\* elements produced Error.
ProducesError(s) ==
    \/ is_error(infer_expr(s))
    \/ s.kind = "Array" /\ is_error(infer_expr(s).elem)

\* C7: a type Error is never silently discarded: if a sub-expression of e
\* infers to Error, or a unification inside e produces Error, then infer(e)
\* is Error.
C7_ErrorNeverDiscarded ==
    (i_phase = "inferred" /\ \E s \in SubExprs(i_expr) : ProducesError(s)) =>
        is_error(inferred)

----------------------------------------------------------------------------
(* Claims about code generation.                                           *)

SameOperands(a, b) ==
    \/ a.kind = "BinaryOp" /\ b.kind = "BinaryOp"
       /\ a.left = b.left /\ a.right = b.right
    \/ a.kind = "UnaryOp" /\ b.kind = "UnaryOp" /\ a.operand = b.operand

\* C9: every operator is lowered to the target operator of the same
\* meaning: over the same operands two distinct binary operators never give
\* the same fragment (so `^` is not the fragment of `*`), and unary `+`
\* does not give the fragment of unary `-`.
C9_OperatorsLoweredFaithfully ==
    (c_phase = "compared" /\ SameOperands(c_expr, c_other)
        /\ c_expr.op # c_other.op /\ "Not" \notin {c_expr.op, c_other.op}) =>
        fragment # other_fragment

CallSteps(e) ==
    \A k \in 1..Len(e.functions) :
        e.functions[k].kind \in {"FunctionCall", "Identifier"}

\* C10: the fragment of a pipe whose steps are calls or bare identifiers is
\* the fragment of its direct-call form: `v |> f(args...)` as
\* `f(v, args...)`, `v |> g` as `g(v)`, and a chain as the nested calls.
C10_PipeIsDirectCall ==
    (c_phase = "compared" /\ c_expr.kind = "Pipe" /\ CallSteps(c_expr)
        /\ c_other = DirectCall(c_expr)) =>
        fragment = other_fragment

\* C10 witness: the chain email |> lowercase() |> trim() generated as
\* trim(lowercase(email)).
C10_Witness ==
    /\ c_phase = "compared"
    /\ c_expr = parse(ChainSource).expr
    /\ c_other = FunctionCall("trim",
                    <<FunctionCall("lowercase", <<Identifier("email")>>)>>)
    /\ fragment = <<"email", ".", "to_lowercase", "(", ")", ".", "trim", "(", ")">>
    /\ other_fragment = fragment

----------------------------------------------------------------------------
(* Claims about pipe chains and temporal keywords in the parser.           *)

\* C11: a pipe chain is collected into one node: `v |> f1() |> ... |> fn()`
\* parses to a single Pipe node whose value is v and whose functions list
\* holds all n steps in source order.
C11_PipeChainCollected ==
    \A c \in PipeChains :
        (p_phase = "parsed" /\ input = c.text) =>
            parsed.ok /\ parsed.expr = Pipe(c.value, c.steps)

\* C13: every temporal keyword written under its long name (NOW, TODAY,
\* START_OF_DAY, END_OF_WEEK, BEGINNING_OF_TIME, ...) lexes to its keyword
\* token and parses to the TemporalKeyword leaf of that keyword, not to an
\* Identifier.
C13_LongKeywordNamesParse ==
    \A k \in LongKeywords :
        (p_phase = "parsed" /\ input = k.text) =>
            /\ tokens.ok
            /\ tokens.tokens[1].type = k.keyword
            /\ parsed.ok
            /\ parsed.expr = TemporalKeyword(k.keyword)

----------------------------------------------------------------------------
(* Claims about the function generator.                                    *)

\* What the family handlers that define `name` return for args.
DefiningResults(name, args) ==
    {string_function(name, args) : n \in {name} \cap string_function_names}
    \cup {datetime_function(name, args) : n \in {name} \cap datetime_function_names}
    \cup {array_function(name, args) : n \in {name} \cap array_function_names}

\* The fragment of a call is the fragment of a family that defines its name.
RoutedToDefiningFamily(e, generated) ==
    (e.kind = "FunctionCall" /\ DefiningResults(e.name, <<>>) # {}) =>
        generated \in DefiningResults(e.name,
                                      [i \in 1..Len(e.args) |-> visit_expr(e.args[i])])

\* C12: FunctionGenerator::call routes by name to the family that defines
\* the name: for every name one of string_function, datetime_function and
\* array_function handles (is_empty, is_null and is_some included) and every
\* argument list, the generated fragment is the fragment the defining
\* handler returns for the same arguments; the empty fragment of `call`
\* itself is only for names no family defines.
C12_CallRoutesToDefiningFamily ==
    /\ c_phase \in {"generated", "compared"} => RoutedToDefiningFamily(c_expr, fragment)
    /\ c_phase = "compared" => RoutedToDefiningFamily(c_other, other_fragment)

----------------------------------------------------------------------------
(* Claims about the types of binary operations and calls.                  *)

Arithmetic == {"Add", "Sub", "Mul", "Div"}
Concrete(t) == t # Unknown /\ ~is_error(t)

\* A binary operation over + - * / has been inferred and both operand types
\* are concrete.
ArithmeticInferred ==
    /\ i_phase = "inferred"
    /\ i_expr.kind = "BinaryOp"
    /\ i_expr.op \in Arithmetic
    /\ Concrete(infer(i_expr.left))
    /\ Concrete(infer(i_expr.right))

\* The combinations the specification lists, as <<op, left, right, result>>.
ListedCombinations ==
    {<<op, Integer, Integer, Integer>> : op \in Arithmetic}
    \cup {<<op, Float, Float, Float>> : op \in Arithmetic}
    \cup {<<op, Integer, Float, Float>> : op \in Arithmetic}
    \cup {<<op, Float, Integer, Float>> : op \in Arithmetic}
    \cup {<<"Add", StringT, StringT, StringT>>}
    \cup {<<op, DateT, DurationT, DateT>> : op \in {"Add", "Sub"}}
    \cup {<<op, DateTimeT, DurationT, DateTimeT>> : op \in {"Add", "Sub"}}
    \cup {<<op, DurationT, DurationT, DurationT>> : op \in {"Add", "Sub"}}
    \cup {<<"Sub", DateT, DateT, DurationT>>, <<"Sub", DateTimeT, DateTimeT, DurationT>>}

\* Addition of a duration on the left, which the code also types.
DurationFirst ==
    {<<"Add", DurationT, DateT, DateT>>, <<"Add", DurationT, DateTimeT, DateTimeT>>}

\* The inferred type follows the table: the result of the matching row, or
\* Error when no row matches.
FollowsTable(table) ==
    LET l == infer(i_expr.left)
        r == infer(i_expr.right)
        rows == {row \in table : row[1] = i_expr.op /\ row[2] = l /\ row[3] = r}
    IN  IF rows = {} THEN is_error(inferred)
        ELSE \A row \in rows : inferred = row[4]

\* C14 as stated: for + - * / on concrete operand types the listed
\* combinations infer their listed result and every other combination
\* infers Error.
C14_ArithmeticAsListed == ArithmeticInferred => FollowsTable(ListedCombinations)

\* C14 amended: the listed combinations, and also Duration + Date -> Date and
\* Duration + DateTime -> DateTime, infer their result; every other
\* combination of concrete operand types infers Error.
C14_ArithmeticTyping ==
    ArithmeticInferred => FollowsTable(ListedCombinations \cup DurationFirst)

\* C14 witness: Duration + Date has been inferred as Date.
C14_Witness ==
    /\ ArithmeticInferred
    /\ i_expr = BinaryOp("Add", Duration("P1D"), Date("2024-01-15"))
    /\ inferred = DateT

NumericOrUnknown(t) == is_numeric(t) \/ t = Unknown

\* C15: for % and ^ inference returns Integer exactly when each of the two
\* operand types is numeric (Integer, Float, Numeric) or Unknown; when
\* either operand's type is anything else the result is Error.
C15_ModPowTyping ==
    (i_phase = "inferred" /\ i_expr.kind = "BinaryOp" /\ i_expr.op \in {"Mod", "Pow"}) =>
        IF NumericOrUnknown(infer(i_expr.left)) /\ NumericOrUnknown(infer(i_expr.right))
        THEN inferred = Integer
        ELSE is_error(inferred)

\* C16: a call to a numeric function (abs, min, max, round, floor, ceil)
\* with at least one argument has the inferred type of its first argument,
\* whatever that type is (Unknown for an identifier or a field access).
C16_NumericCallHasArgumentType ==
    (/\ i_phase = "inferred"
     /\ i_expr.kind = "FunctionCall"
     /\ i_expr.name \in {"abs", "min", "max", "round", "floor", "ceil"}
     /\ Len(i_expr.args) >= 1) =>
        inferred = infer(i_expr.args[1])

----------------------------------------------------------------------------
(* Claims about what constant folding leaves alone.                        *)

\* The cases in which an operation on two integer literals is not folded:
\* a zero divisor, an exponent outside the range, an overflow of a checked
\* operation.
NotFoldable(e) ==
    \/ e.op \in {"Div", "Mod"} /\ e.right.lit.i = 0
    \/ e.op = "Pow" /\ e.right.lit.i \notin 0..MaxFoldExponent
    \/ e.op \in {"Add", "Sub", "Mul", "Div", "Pow"} /\ Overflows(e)

\* C17: for integer literals a and b, fold_constants leaves BinaryOp(op, a, b)
\* unchanged, without raising an error, exactly when op is / or % and b = 0,
\* or op is ^ and b is outside 0..31, or the checked operation overflows; in
\* every other case with an arithmetic or comparison operator it returns a
\* Literal.
C17_UnfoldedExactlyWhenGuarded ==
    (OptFolded /\ IntBinary(expr) /\ expr.op \notin {"And", "Or"}) =>
        IF NotFoldable(expr) THEN folded = expr ELSE folded.kind = "Literal"

Compound ==
    {"Array", "Object", "FieldAccess", "FunctionCall", "Lambda", "Let", "If",
     "Pipe", "Alternative", "Guard"}
UnfoldedLeaves ==
    {"Identifier", "String", "Date", "DateTime", "Duration", "TemporalKeyword"}

\* The children of a compound node in order, and its names or keys.
ChildList(e) ==
    CASE e.kind = "Array" -> e.elements
      [] e.kind = "Object" -> [i \in 1..Len(e.fields) |-> e.fields[i][2]]
      [] e.kind = "FieldAccess" -> <<e.receiver>>
      [] e.kind = "FunctionCall" -> e.args
      [] e.kind = "Lambda" -> <<e.body>>
      [] e.kind = "Let" -> <<e.value, e.body>>
      [] e.kind = "If" -> <<e.condition, e.then_branch, e.else_branch>>
      [] e.kind = "Pipe" -> <<e.value>> \o e.functions
      [] e.kind = "Alternative" -> <<e.primary, e.alternative>>
      [] e.kind = "Guard" -> <<e.condition, e.body>>
Labels(e) ==
    CASE e.kind = "Object" -> [i \in 1..Len(e.fields) |-> e.fields[i][1]]
      [] e.kind = "FieldAccess" -> <<e.field>>
      [] e.kind = "FunctionCall" -> <<e.name>>
      [] e.kind = "Lambda" -> <<e.param>>
      [] e.kind = "Let" -> <<e.name>>
      [] OTHER -> <<>>

----------------------------------------------------------------------------
(* C19: validate_expression returns Ok only if, ignoring the characters    *)
(* inside string literals, the parentheses and the square brackets are     *)
(* each balanced: as many openers as closers, and every prefix has at      *)
(* least as many openers as closers.                                       *)

\* The characters of a text that stand outside string literals.  A quote
\* opens a literal that runs to the next occurrence of the same quote; a
\* backslash takes the character after it along.  delimiter is "" outside
\* a literal.
RECURSIVE OutsideLiterals(_, _, _)
OutsideLiterals(text, k, delimiter) ==
    IF k > Len(text) THEN <<>>
    ELSE IF text[k] = "\\" THEN OutsideLiterals(text, k + 2, delimiter)
    ELSE IF delimiter = "" /\ text[k] \in {"\"", "'"}
    THEN OutsideLiterals(text, k + 1, text[k])
    ELSE IF delimiter = ""
    THEN <<text[k]>> \o OutsideLiterals(text, k + 1, "")
    ELSE OutsideLiterals(text, k + 1,
                         IF text[k] = delimiter THEN "" ELSE delimiter)

Occurrences(text, n, c) == Cardinality({k \in 1..n : text[k] = c})

Balanced(text, open_char, close_char) ==
    /\ Occurrences(text, Len(text), open_char)
         = Occurrences(text, Len(text), close_char)
    /\ \A n \in 0..Len(text) :
         Occurrences(text, n, open_char) >= Occurrences(text, n, close_char)

\* C19: an accepted text has balanced parentheses and balanced square
\* brackets outside its string literals, order included.
C19_OkOnlyIfBalanced ==
    (v_phase = "validated" /\ v_result.ok) =>
        /\ Balanced(OutsideLiterals(v_input, 1, ""), "(", ")")
        /\ Balanced(OutsideLiterals(v_input, 1, ""), "[", "]")

----------------------------------------------------------------------------
(* C20: every error returned by Parser::parse carries the 1-based line and *)
(* column of the place where the failure was detected: a lexer failure     *)
(* keeps the LexError's line and column, a parser failure reports the      *)
(* position of the offending token.                                        *)

\* The lexer in front of token number n (0-based) of a source, whitespace
\* skipped: its line and column are where that token starts.  Past the last
\* token it stands at the end of the input, where Eof is.
RECURSIVE LexerAt(_, _, _)
LexerAt(src, lx, n) ==
    IF n = 0 THEN skip_whitespace(src, lx)
    ELSE LexerAt(src, next_token(src, lx).lexer, n - 1)
TokenStart(src, n) ==
    <<LexerAt(src, Lexer_new, n).line, LexerAt(src, Lexer_new, n).column>>

\* The failures raised on a token that was consumed before it was judged:
\* the cursor stands one past the offending token.
RaisedAfterAdvance ==
    {"Expected field name after '.'", "Expected field name in object literal",
     "Expected variable name after 'let'", "Expected parameter name in lambda"}
OffendingToken(result) ==
    IF result.error.message \in RaisedAfterAdvance /\ result.current > 0
    THEN result.current - 1
    ELSE result.current

\* C20: a failed parse reports the lexer's line and column when the lexer
\* failed, and otherwise the line and column where the offending token
\* starts in the source.
C20_ErrorCarriesPosition ==
    (p_phase = "parsed" /\ ~parsed.ok) =>
        IF ~tokens.ok
        THEN /\ parsed.error.line = tokens.error.line
             /\ parsed.error.column = tokens.error.column
        ELSE <<parsed.error.line, parsed.error.column>>
                 = TokenStart(input, OffendingToken(parsed))

----------------------------------------------------------------------------
(* C21: when a single-quoted string literal holds an unrecognized escape   *)
(* or is not terminated before the end of the input, tokenize returns a    *)
(* LexError whose line and column are those of the opening quote.          *)

StringErrors == {"Invalid escape sequence", "Unterminated string literal"}

\* C21: a failure of read_string is reported where the token that failed
\* starts, which is the string's opening quote.
C21_StringErrorAtOpeningQuote ==
    (l_phase = "failed" /\ l_result.error.message \in StringErrors) =>
        <<l_result.error.line, l_result.error.column>>
            = TokenStart(l_src, Len(l_tokens))

----------------------------------------------------------------------------
(* C22: every maximal run of alphanumeric or underscore characters that    *)
(* does not start with a digit lexes to exactly one token, the keyword     *)
(* when the run is in the keyword table and Identifier(run) otherwise,     *)
(* runs that start with an underscore included.                            *)

WordChar(ch) == is_alphanumeric(ch) \/ ch = "_"

\* The 0-based position just past the run of word characters that holds
\* position k.
RECURSIVE RunEnd(_, _)
RunEnd(src, k) ==
    IF k < Len(src) /\ WordChar(src[k + 1]) THEN RunEnd(src, k + 1) ELSE k

\* A maximal run that does not start with a digit begins at position k.
RunStartsAt(src, k) ==
    /\ k < Len(src)
    /\ WordChar(src[k + 1])
    /\ ~is_ascii_digit(src[k + 1])
    /\ k > 0 => ~WordChar(src[k])

\* The token of a run: its keyword, or the identifier it spells.
WordToken(run) ==
    IF Keyword(run) = "Identifier" THEN TokIdentifier(run)
    ELSE Token(Keyword(run))

\* What next_token returns when the lexer, whitespace skipped, stands at
\* position k in front of such a run: the run's token, and the lexer just
\* past the run.
RunLexedAsOneToken(src, lx, k) ==
    /\ next_token(src, lx).ok
    /\ next_token(src, lx).token
         = WordToken(Concat(SubSeq(src, k + 1, RunEnd(src, k))))
    /\ next_token(src, lx).lexer.position = RunEnd(src, k)

\* C22: whenever the lexer stands in front of a maximal run that does not
\* start with a digit, the next token is the run's keyword or identifier.
C22_WordRunIsOneToken ==
    (l_phase = "lexing"
     /\ RunStartsAt(l_src, skip_whitespace(l_src, l_lexer).position)) =>
        RunLexedAsOneToken(l_src, l_lexer,
                           skip_whitespace(l_src, l_lexer).position)

----------------------------------------------------------------------------
(* C23: the malformed-number LexError and the scan of read_number.  As     *)
(* stated: every maximal run of digits, optionally with one `.` and more   *)
(* digits, of any length, lexes to an Integer or Float token and never to  *)
(* a LexError.                                                             *)

\* The 0-based position just past the digits that start at position k.
RECURSIVE DigitsEnd(_, _)
DigitsEnd(src, k) ==
    IF k < Len(src) /\ is_ascii_digit(src[k + 1]) THEN DigitsEnd(src, k + 1)
    ELSE k

\* The decimal value of a run of digits.
RECURSIVE DecimalValue(_)
DecimalValue(digits) ==
    IF digits = <<>> THEN 0
    ELSE DecimalValue(SubSeq(digits, 1, Len(digits) - 1)) * 10
         + DigitValue(digits[Len(digits)])

\* The lexer, whitespace skipped, stands in front of a digit.
AtNumber == l_phase = "lexing"
            /\ is_ascii_digit(current_char(l_src, skip_whitespace(l_src, l_lexer)))
NumberStart == skip_whitespace(l_src, l_lexer)
NumberDigits ==
    SubSeq(l_src, NumberStart.position + 1,
           DigitsEnd(l_src, NumberStart.position))
\* The digits are the whole run (no `.` follows them) and their value does
\* not fit the integer width.
IntegerOutOfRange ==
    /\ current_char(l_src, [NumberStart EXCEPT
                               !.position = DigitsEnd(l_src, @)]) # "."
    /\ DecimalValue(NumberDigits) > MaxInt
NumberLexed ==
    /\ next_token(l_src, l_lexer).ok
    /\ next_token(l_src, l_lexer).token.type \in {"Integer", "Float"}

\* C23 as stated: in front of a digit the next token is an Integer or a
\* Float, never a LexError.
C23_NumberNeverFails == AtNumber => NumberLexed

\* C23: in front of a digit the next token is an Integer or a Float, but
\* for a run of digits without `.` whose value is out of the integer's
\* range, which is the LexError `Invalid integer` at the run's start.
C23_NumberFailsOnlyOutOfRange ==
    AtNumber =>
        IF IntegerOutOfRange
        THEN /\ ~next_token(l_src, l_lexer).ok
             /\ next_token(l_src, l_lexer).error
                  = LexError("Invalid integer: " \o Concat(NumberDigits),
                             NumberStart.line, NumberStart.column)
        ELSE NumberLexed

C23_Witness ==
    /\ l_phase = "failed"
    /\ l_src = <<"\n", "9", "9", "9">>
    /\ l_tokens = <<>>
    /\ l_result.error = LexError("Invalid integer: 999", 2, 1)

----------------------------------------------------------------------------
(* C24: a `.` becomes part of a number token only when a digit follows it  *)
(* immediately: digits followed by `.` and a non-digit (or the end of the  *)
(* input) lex as an Integer token and a separate Dot token, and a number   *)
(* absorbs at most one `.`.                                                *)

\* The character at 0-based position k, NoChar past the end.
CharAt(src, k) == IF k < Len(src) THEN src[k + 1] ELSE NoChar

\* The `.` after the digits belongs to the number: a digit follows it.
DotBelongs ==
    /\ CharAt(l_src, DigitsEnd(l_src, NumberStart.position)) = "."
    /\ is_ascii_digit(CharAt(l_src, DigitsEnd(l_src, NumberStart.position) + 1))

\* Where the number token ends: past the digits, and past one `.` and the
\* digits after it when the `.` belongs to the number.
NumberEnd ==
    IF DotBelongs
    THEN DigitsEnd(l_src, DigitsEnd(l_src, NumberStart.position) + 1)
    ELSE DigitsEnd(l_src, NumberStart.position)

\* C24: in front of digits whose value fits an integer, the next token ends
\* at NumberEnd; it is a Float when the `.` belongs to the number and an
\* Integer otherwise, and a `.` left behind is the next token, a Dot.
C24_DotNeedsDigit ==
    (AtNumber /\ DecimalValue(NumberDigits) <= MaxInt) =>
        /\ next_token(l_src, l_lexer).ok
        /\ next_token(l_src, l_lexer).lexer.position = NumberEnd
        /\ next_token(l_src, l_lexer).token.type
             = (IF DotBelongs THEN "Float" ELSE "Integer")
        /\ CharAt(l_src, NumberEnd) = "." =>
             next_token(l_src, next_token(l_src, l_lexer).lexer).token
                 = Token("Dot")

----------------------------------------------------------------------------
(* C25: whenever tokenize returns Ok, the returned sequence holds exactly  *)
(* one Eof token, as its last element, and the elements before it are      *)
(* non-Eof tokens in source order.                                         *)

\* Token number k (1-based) of the result is the token that starts where
\* the lexer stands after k - 1 tokens, and it starts after the one before.
InSourceOrder(src, toks) ==
    \A k \in 1..Len(toks) :
        /\ toks[k] = next_token(src, LexerAt(src, Lexer_new, k - 1)).token
        /\ k > 1 => LexerAt(src, Lexer_new, k - 2).position
                        < LexerAt(src, Lexer_new, k - 1).position

\* C25: an Ok result ends with its only Eof, and its tokens are in source
\* order; the loop run step by step returns what tokenize returns.
C25_OneEofLast ==
    l_phase = "done" =>
        /\ l_result.ok
        /\ l_result = tokenize(l_src)
        /\ Len(l_result.tokens) >= 1
        /\ l_result.tokens[Len(l_result.tokens)] = Eof
        /\ \A k \in 1..(Len(l_result.tokens) - 1) : l_result.tokens[k] # Eof
        /\ InSourceOrder(l_src, l_result.tokens)

C25_Witness ==
    /\ l_phase = "done"
    /\ l_src = <<"n", ".", "i", " ">>
    /\ l_result.ok
    /\ l_result.tokens
         = <<TokIdentifier("n"), Token("Dot"), TokIdentifier("i"), Eof>>

----------------------------------------------------------------------------
(* C26: Parser::parse returns Ok only when the expression it parsed        *)
(* consumed every token before Eof; tokens left over after a complete      *)
(* expression yield a ParseError, not the AST of the prefix.               *)

\* C26: after an Ok parse the cursor stands on the Eof token.
C26_OkConsumesAllTokens ==
    (p_phase = "parsed" /\ parsed.ok) =>
        /\ parsed.current = Len(tokens.tokens) - 1
        /\ peek(tokens.tokens, parsed.current) = Eof

----------------------------------------------------------------------------
(* C27: an operand of unknown type never makes arithmetic a type error by  *)
(* itself: for each of + - * /, when both operands infer to Unknown the    *)
(* inferred type is not InferredType::Error.                               *)

\* C27: + - * / over two operands of type Unknown does not infer an Error.
C27_UnknownArithmeticIsNoError ==
    (/\ i_phase = "inferred"
     /\ i_expr.kind = "BinaryOp"
     /\ i_expr.op \in Arithmetic
     /\ infer(i_expr.left) = Unknown
     /\ infer(i_expr.right) = Unknown) =>
        ~is_error(inferred)

----------------------------------------------------------------------------
(* C28: for TypeInferenceVisitor and every Expr node, the generic entry    *)
(* point visit_expr returns the same InferredType as the handler method of *)
(* the node's variant called on the node's fields.                         *)

\* C28: the type visit_expr (infer_expr) gives a node is the type the
\* handler of its variant gives it.
C28_EntryPointAgreesWithHandlers ==
    i_phase = "inferred" => inferred = visit_handler(i_expr)

----------------------------------------------------------------------------
(* C29: static typing of temporal arithmetic agrees with the runtime: for  *)
(* x a Date or DateTime and d a Duration, the type inferred for x + d and  *)
(* x - d is the kind of value add_duration and subtract_duration return    *)
(* for the same operands.                                                  *)

TemporalLeaf(e) ==
    \/ e.kind \in {"Date", "DateTime"}
    \/ e.kind = "TemporalKeyword" /\ e.keyword \in {"Now", "Today"}

\* x + d or x - d has been inferred, x a date or datetime leaf and d a
\* duration literal.
TemporalArithmeticInferred ==
    /\ i_phase = "inferred"
    /\ i_expr.kind = "BinaryOp"
    /\ i_expr.op \in {"Add", "Sub"}
    /\ TemporalLeaf(i_expr.left)
    /\ i_expr.right.kind = "Duration"

\* What the runtime makes of the operation.
RuntimeResult ==
    IF i_expr.op = "Add"
    THEN add_duration(temporal_value(i_expr.left), temporal_value(i_expr.right))
    ELSE subtract_duration(temporal_value(i_expr.left),
                           temporal_value(i_expr.right))

\* C29: the inferred type names the variant the runtime returns.
C29_StaticTypeIsRuntimeKind ==
    TemporalArithmeticInferred =>
        /\ RuntimeResult.ok
        /\ inferred.tag = RuntimeResult.value.variant

----------------------------------------------------------------------------
(* C30: for every finite source Parser::parse terminates with Ok or Err:   *)
(* each next_token call that returns a token other than Eof consumes at    *)
(* least one character, and every iteration of a parser loop advances the  *)
(* token cursor, which never decreases and never exceeds the length of     *)
(* the token sequence.                                                     *)

\* A step of the lexer: the position never decreases nor leaves the input,
\* and a token other than Eof has consumed at least one character.
LexerProgress ==
    /\ l_lexer'.position >= l_lexer.position
    /\ l_lexer'.position <= Len(l_src)
    /\ (Len(l_tokens') > Len(l_tokens) /\ l_tokens'[Len(l_tokens')] # Eof) =>
           l_lexer'.position > l_lexer.position

\* A parse started at cursor cur has stopped at r.current: not before cur,
\* not past the token sequence, and past cur when it returned an expression.
Progressed(cur, r, length) ==
    /\ r.current >= cur
    /\ r.current <= length
    /\ r.ok => r.current > cur

\* Every expression the parser can be asked for, at any cursor of the token
\* sequence, is parsed with progress; the loops of the parser iterate by
\* such parses.
CursorProgress(toks) ==
    \A cur \in 0..Len(toks) :
        Progressed(cur, parse_expression(toks, cur), Len(toks))

ParseReturned ==
    p_phase = "parsed" =>
        /\ parsed.ok \/ parsed.error.message # ""
        /\ parsed.current <= Len(tokens.tokens)
        /\ tokens.ok => CursorProgress(tokens.tokens)

\* C30: every call returns, the result is Ok or Err, the lexer and the
\* parser's cursor progress as stated.
C30_ParseTerminates ==
    /\ <>(p_phase = "parsed")
    /\ [][LexerProgress]_vars
    /\ []ParseReturned

C30_Witness ==
    /\ p_phase = "parsed"
    /\ input = <<"n", "+", "9">>
    /\ l_lexer.position = 3
    /\ Len(l_tokens) = 4
    /\ l_tokens[4] = Eof
    /\ parsed.ok
    /\ parsed.expr.kind = "BinaryOp"
    /\ parsed.current = 3

====
